---- MODULE Spec2Model ----
(***************************************************************************)
(* TheButton: ingress (PoW gate, rate limiter, producer), the ordered log, *)
(* the single-writer reducer, and the fan-out bridge.                      *)
(*                                                                         *)
(* The module holds several specifications over one set of variables; each *)
(* specification moves the variables of one component and leaves the       *)
(* others at their initial values.                                         *)
(*   SpecReducer : the reducer main loop against the log and the store     *)
(*   SpecReducerLoop : SpecReducer for one process that is never killed     *)
(*   SpecRestartLive : the reducer killed between persist and commit, then  *)
(*                 restarted; the loop and the supervisor scheduled fairly *)
(*   SpecPow     : concurrent request tasks inside verify_solution         *)
(*   SpecVerify  : verify_solution, one call after the other               *)
(*   SpecRl      : concurrent request tasks inside check_rate_limit        *)
(*   SpecRlSeq   : check_rate_limit, one call after the other              *)
(*   SpecPress   : POST /v1/events/press, the producer and the broker      *)
(*   SpecResubmit : presses repeated at once or after the lifetime of a    *)
(*                 challenge                                               *)
(*   SpecFanout  : the reducer and one subscriber of the state stream      *)
(*   SpecFanoutLive : SpecFanout with the loops scheduled fairly            *)
(*   SpecNotify  : the reducer of well-formed presses, and one subscriber   *)
(*   SpecSweeper : the idle sweeper, invoked at any moment, and the reducer *)
(*   SpecSweeperLive : the sweeper as a periodic task, the reducer, both    *)
(*                 scheduled fairly and free of faults                     *)
(*   SpecFold    : apply_event, one event after the other                  *)
(*   SpecWire    : one message of the log or of the update channel, parsed *)
(*                 by its consumer                                         *)
(*   SpecDup     : reducer instances that consume the same log side by side *)
(*   SpecHealth  : the health endpoints and the dependencies they probe    *)
(*   SpecBatch   : apply_batch, called on a list of events in any order    *)
(*   SpecListen  : listen_on_pubsub, its exits and its clean-up            *)
(***************************************************************************)
EXTENDS Integers, Sequences, FiniteSets, TLC

(***************************************************************************)
(* Bounds of the model                                                     *)
(***************************************************************************)
MaxLog == 3                    \* events ever appended to the log
MaxRows == 2                   \* rows ever persisted
MaxSweeps == 3                 \* invocations of the sweeper, at any moment
MaxLoops == 6                  \* turns of the sweeper's periodic loop
MaxFolds == 3                  \* events folded one by one by apply_event
NumReducers == 2               \* reducer instances on the same log
MaxDupRows == 3                \* rows ever persisted by those instances
MaxBackoffAttempt == 6         \* largest attempt number given to backoff_delay
MaxLoopLog == 4                \* events ever appended while one process runs
MaxListenCalls == 2            \* calls of listen_on_pubsub
MaxYielded == 2                \* updates that one call of listen_on_pubsub yields
MaxBatchLog == 4               \* events of the log that apply_batch is called on
MaxChallenges == 1             \* challenges ever issued
MaxTicks == 2                  \* clock advances
MaxAccepted == 2               \* the acceptance counter saturates here
NumTasks == 2                  \* concurrent request tasks
TicksPerSecond == 3            \* resolution of the rate limiter's clock
MaxPress == 3                  \* press requests ever made
MaxPressClock == 1             \* ticks of the clock while the client presses
MaxStoreErrors == 1            \* store errors met by press requests
MaxRlRequests == 4             \* rate-limit checks ever made
MaxRlClock == 4                \* last tick of the rate limiter's clock (concurrent tasks)
BurstRequests == 2             \* requests of the burst tier used in the model
SustainedRequests == 2         \* requests of the sustained tier used in the model
SustainedWindowSeconds == 2    \* window of the sustained tier used in the model

(***************************************************************************)
(* Program constants                                                       *)
(***************************************************************************)
backoff_max_attempts == 3
backoff_base_seconds == 1
max_backoff_seconds == 30
DEFAULT_DIFFICULTY == 4
CHALLENGE_TTL_SECONDS == 30
USED_TTL_BUFFER == 5
BurstWindowSeconds == 1
KeyTtlExtraSeconds == 1
kafka_max_batch_size == 2

VARIABLES
    \* ---- ordered log and consumer group (broker side)
    log,              \* sequence of messages; offset of log[i] is i - 1
    committed,        \* committed offset of the consumer group (next offset to read)
    \* ---- state store
    rows,             \* sequence of persisted GlobalState rows, in insertion order
    \* ---- update channel
    published,        \* ids of the rows for which a notification was published
    \* ---- reducer process
    rpc,              \* position of the reducer in main()
    position,         \* in-memory position of the consumer
    state,            \* in-memory state of main()
    new_state,        \* result of apply_batch for the batch in hand
    msgs,             \* the batch in hand: the offsets polled
    backoff_attempt,  \* main(): backoff_attempt
    sleeps,           \* history: the delays main() has slept after errors, in
                      \* seconds, since the process started
    \* ---- PoW oracle (ingress) and its used-set in the shared store
    clock,            \* wall clock, whole seconds: int(time.time())
    issued,           \* challenges generated so far, in order of issue
    used,             \* used-set: challenge_id -> time at which the key expires (0: no key)
    ptask,            \* request task -> its position inside verify_solution
    accepted,         \* history: challenge_id -> number of (True, None) returns, saturating
    pow_outage,       \* history: a used-set call has raised
    last_verify,      \* history: the last completed verify_solution call
    \* ---- rate limiter (ingress) and its sorted sets in the shared store
    rl_clock,         \* time.time(), in ticks of 1/TicksPerSecond second
    zset,             \* tier -> sorted set of the client IP: the scores (member = str(score))
    zset_expire,      \* tier -> time at which the key expires
    rltask,           \* request task -> its position inside check_rate_limit
    rl_log,           \* history: the answers of check_rate_limit, in order of return
    rl_outage,        \* history: a rate-limiter pipeline has raised
    \* ---- POST /v1/events/press and the producer
    blocklist,        \* the client IP is a member of rl:blocklist
    pqueue,           \* messages in the producer's queue, not yet delivered
    flushing,         \* the request waiting in flush_producer (0: none)
    press_count,      \* press requests received so far
    store_errors,     \* store errors met by press requests so far
    sent_unchecked,   \* history: requests whose message was produced though
                      \* a check in front of send_message had not passed
    last_press,       \* history: the latest press request and its answer
    \* ---- GET /v1/states/stream: one subscriber of the fan-out
    sub,              \* "none" (not connected), "listening" or "ended"
    missed,           \* ids published before the subscriber subscribed
    consumed,         \* ids whose notification the listener has read
    stream,           \* the events sent to the subscriber, in order
    disconnected,     \* the subscriber has gone away
    \* ---- the idle sweeper
    now_ms,           \* int(time.time() * 1000) at the latest invocation
    sweeps,           \* invocations so far
    \* ---- one message on the wire and what its consumer made of it
    wire,             \* [kind, data]: a JSON object of the log or the channel
    handled,          \* [done, ok, value]: the outcome of parsing it
    \* ---- reducer instances that consume the same log side by side
    dup,              \* instance -> [pc, position, state, new_state, msgs,
                      \*              persisted_id]
    \* ---- the health endpoints and the dependencies they probe
    deps,             \* dependency -> how it answers a probe
    health,           \* the latest answer: [endpoint, checks, status, status_code]
    \* ---- one call of listen_on_pubsub and the resources it holds
    lsn               \* [pc, subscribed, pubsub_open, conn_open, exc, outcome,
                      \*  yielded, cleanup_raised, calls]

reducerVars == <<log, committed, rows, published, rpc, position, state,
                 new_state, msgs, backoff_attempt>>

powVars == <<clock, issued, used, ptask, accepted, pow_outage, last_verify>>

rlVars == <<rl_clock, zset, zset_expire, rltask, rl_log, rl_outage>>

pressVars ==
    <<blocklist, pqueue, flushing, press_count, store_errors, sent_unchecked,
      last_press>>

fanVars == <<sub, missed, consumed, stream, disconnected>>

wireVars == <<wire, handled>>

sweepVars == <<now_ms, sweeps>>

dupVars == <<dup>>

healthVars == <<deps, health>>

backoffVars == <<sleeps>>

listenVars == <<lsn>>

vars == <<reducerVars, powVars, rlVars, pressVars, fanVars, wireVars,
          sweepVars, dupVars, healthVars, backoffVars, listenVars>>

\* What the actions of one component leave alone (notMain: main() of the
\* reducer as a whole; notReducer: the steps of its loop that do not sleep)
notMain ==
    <<powVars, rlVars, pressVars, fanVars, wireVars, sweepVars, dupVars,
      healthVars, listenVars>>
notReducer == <<notMain, backoffVars>>
notPow ==
    <<reducerVars, rlVars, pressVars, fanVars, wireVars, sweepVars, dupVars,
      healthVars, backoffVars, listenVars>>
notRl ==
    <<reducerVars, powVars, pressVars, fanVars, wireVars, sweepVars, dupVars,
      healthVars, backoffVars, listenVars>>
notFan ==
    <<reducerVars, powVars, rlVars, pressVars, wireVars, sweepVars, dupVars,
      healthVars, backoffVars, listenVars>>
notWire ==
    <<reducerVars, powVars, rlVars, pressVars, fanVars, sweepVars, dupVars,
      healthVars, backoffVars, listenVars>>
notSweep ==
    <<committed, rows, published, rpc, position, state, new_state, msgs,
      backoff_attempt, powVars, rlVars, pressVars, fanVars, wireVars,
      dupVars, healthVars, backoffVars, listenVars>>
notDup ==
    <<log, rpc, position, state, new_state, msgs, backoff_attempt, powVars,
      rlVars, pressVars, fanVars, wireVars, sweepVars, healthVars,
      backoffVars, listenVars>>
notHealth ==
    <<reducerVars, powVars, rlVars, pressVars, fanVars, wireVars, sweepVars,
      dupVars, backoffVars, listenVars>>
notListen ==
    <<reducerVars, powVars, rlVars, pressVars, fanVars, wireVars, sweepVars,
      dupVars, healthVars, backoffVars>>
notPress ==
    <<committed, rows, published, rpc, position, state, new_state, msgs,
      backoff_attempt, ptask, accepted, pow_outage, last_verify, rltask,
      rl_log, rl_outage, fanVars, wireVars, sweepVars, dupVars,
      healthVars, backoffVars, listenVars>>

Max(a, b) == IF a >= b THEN a ELSE b
Min(a, b) == IF a <= b THEN a ELSE b

(***************************************************************************)
(* The reducer                                                             *)
(***************************************************************************)

\* Python's None, where an Optional[int] or Optional[float] is expected (the
\* numbers that take its place are never negative)
None == -1

\* Entropy, the thresholds and entropy_alpha are floats of [0, 1]; the model
\* keeps them in thousandths, rounded down after each operation.
EntropyScale == 1000

\* shared.models.Phases, stored as an integer
Phases == [CALM |-> 0, WARM |-> 1, HOT |-> 2, CHAOS |-> 3]

\* The table rulesets, in the order of the ids: an earlier ruleset, and the
\* default rules, which are the latest.
RulesetRegistry ==
    << [hash |-> "h0",
        ruleset |-> [entropy_alpha |-> 100, max_rate_for_entropy |-> 8,
                     calm_threshold |-> 250, hot_threshold |-> 550,
                     chaos_threshold |-> 900,
                     cooldown_calm_ms |-> 900, cooldown_warm_ms |-> 1800,
                     cooldown_chaos_ms |-> 4500,
                     reveal_calm_ms |-> 150, reveal_warm_ms |-> 300,
                     reveal_chaos_ms |-> 700]],
       [hash |-> "h1",
        ruleset |-> [entropy_alpha |-> 200, max_rate_for_entropy |-> 10,
                     calm_threshold |-> 300, hot_threshold |-> 600,
                     chaos_threshold |-> 850,
                     cooldown_calm_ms |-> 1000, cooldown_warm_ms |-> 2000,
                     cooldown_chaos_ms |-> 5000,
                     reveal_calm_ms |-> 200, reveal_warm_ms |-> 400,
                     reveal_chaos_ms |-> 800]] >>

RulesHashes == {RulesetRegistry[i].hash : i \in 1..Len(RulesetRegistry)}

\* shared.rules.get_latest_rules: order_by(Ruleset.id.desc()).limit(1)
get_latest_rules == RulesetRegistry[Len(RulesetRegistry)]

\* shared.rules.get_rules_by_hash: the RulesConfig of the ruleset
get_rules_by_hash(rules_hash) ==
    (CHOOSE r \in {RulesetRegistry[i] : i \in 1..Len(RulesetRegistry)} :
        r.hash = rules_hash).ruleset

\* logic.update_entropy; dt_ms is the gap in milliseconds (dt_sec * 1000) or
\* None. intensity = min(1 / max(dt_sec, 1e-3), max_rate) / max_rate.
update_entropy(prev_entropy, dt_ms, rules) ==
    LET instant_intensity ==
          IF dt_ms = None THEN EntropyScale
          ELSE Min((1000 * EntropyScale)
                      \div (Max(dt_ms, 1) * rules.max_rate_for_entropy),
                   EntropyScale)
        alpha == rules.entropy_alpha
        new_entropy == ((EntropyScale - alpha) * prev_entropy
                          + alpha * instant_intensity) \div EntropyScale
    IN Max(0, Min(EntropyScale, new_entropy))

\* Variant of the phase derivation in which an entropy equal to a threshold
\* belongs to the lower phase.
transition_phase_inclusive(entropy, rules) ==
    IF entropy <= rules.calm_threshold THEN Phases.CALM
    ELSE IF entropy <= rules.hot_threshold THEN Phases.WARM
    ELSE IF entropy <= rules.chaos_threshold THEN Phases.HOT
    ELSE Phases.CHAOS

\* logic.transition_phase
transition_phase(entropy, rules) ==
    IF entropy < rules.calm_threshold THEN Phases.CALM
    ELSE IF entropy < rules.hot_threshold THEN Phases.WARM
    ELSE IF entropy < rules.chaos_threshold THEN Phases.HOT
    ELSE Phases.CHAOS

\* logic.compute_cooldown_ms: int(base * (0.5 + 0.5 * entropy))
compute_cooldown_ms(phase, entropy, rules) ==
    LET base == IF phase = Phases.CALM THEN rules.cooldown_calm_ms
                ELSE IF phase = Phases.WARM THEN rules.cooldown_warm_ms
                ELSE rules.cooldown_chaos_ms
    IN (base * (EntropyScale + entropy)) \div (2 * EntropyScale)

\* Variant of the reveal window that follows the latest event.
compute_reveal_until_ms_latest(prev_reveal_until_ms, event_ts_ms, phase, rules) ==
    event_ts_ms + (IF phase = Phases.CALM THEN rules.reveal_calm_ms
                   ELSE IF phase = Phases.WARM THEN rules.reveal_warm_ms
                   ELSE rules.reveal_chaos_ms)

\* logic.compute_reveal_until_ms
compute_reveal_until_ms(prev_reveal_until_ms, event_ts_ms, phase, rules) ==
    LET duration == IF phase = Phases.CALM THEN rules.reveal_calm_ms
                    ELSE IF phase = Phases.WARM THEN rules.reveal_warm_ms
                    ELSE rules.reveal_chaos_ms
        candidate == event_ts_ms + duration
    IN IF prev_reveal_until_ms = None THEN candidate
       ELSE Max(prev_reveal_until_ms, candidate)

\* writer.get_initial_state; lineage is a history field: the offsets folded
\* into this state, through every predecessor it was folded from.
get_initial_state(rules_hash) ==
    [last_applied_offset |-> -1, updated_at_ms |-> 0,
     ruleshash |-> rules_hash, counter |-> 0, phase |-> 0, entropy |-> 0,
     reveal_until_ms |-> 0, cooldown_ms |-> None, lineage |-> {}]

\* No value: main() before the state is loaded, and new_state and msgs where
\* the loop no longer reads them (both are assigned again before their next
\* use, so they are kept at one value there).
NoState ==
    [last_applied_offset |-> -2, updated_at_ms |-> 0, ruleshash |-> "",
     counter |-> 0, phase |-> 0, entropy |-> 0, reveal_until_ms |-> 0,
     cooldown_ms |-> None, lineage |-> {}]

\* The row with the highest id (rows are appended with increasing ids).
LatestRow == rows[Len(rows)]

\* Variant of the start of main() that never loads a row.
get_latest_state_none == get_initial_state(get_latest_rules.hash)

\* writer.get_latest_state, and its use at the start of main()
get_latest_state ==
    IF rows = <<>> THEN get_initial_state(get_latest_rules.hash)
    ELSE [last_applied_offset |-> LatestRow.last_applied_offset,
          updated_at_ms |-> LatestRow.updated_at_ms,
          ruleshash |-> LatestRow.ruleshash,
          counter |-> LatestRow.counter,
          phase |-> LatestRow.phase,
          entropy |-> LatestRow.entropy,
          reveal_until_ms |-> LatestRow.reveal_until_ms,
          cooldown_ms |-> LatestRow.cooldown_ms,
          lineage |-> LatestRow.lineage]

\* PressEvent built from a message of the log at offset o
PressEvent(o) ==
    [offset |-> o, timestamp_ms |-> log[o + 1].timestamp_ms,
     request_id |-> log[o + 1].request_id]

\* The CreateGlobalStateEntity that apply_event returns, given the entropy
\* and the phase it has computed
CreateGlobalStateEntity(s, event, rules_config, rules_hash, new_entropy, new_phase) ==
    [last_applied_offset |-> event.offset,
     updated_at_ms |-> event.timestamp_ms,
     ruleshash |-> rules_hash,
     counter |-> s.counter + 1,
     phase |-> new_phase,
     entropy |-> new_entropy,
     reveal_until_ms |->
         compute_reveal_until_ms(s.reveal_until_ms, event.timestamp_ms,
                                 new_phase, rules_config),
     cooldown_ms |-> compute_cooldown_ms(new_phase, new_entropy,
                                         rules_config),
     lineage |-> s.lineage \cup {event.offset}]

\* updater.apply_event (new_entropy is bound to its value, as the
\* assignment of the function does)
apply_event(s, event, rules_config, rules_hash) ==
    LET dt_ms == IF s.updated_at_ms = 0 THEN None
                 ELSE Max(event.timestamp_ms - s.updated_at_ms, 1)
    IN CHOOSE created \in
         {CreateGlobalStateEntity(s, event, rules_config, rules_hash,
              new_entropy, transition_phase(new_entropy, rules_config)) :
            new_entropy \in {update_entropy(s.entropy, dt_ms,
                                            rules_config)}} : TRUE

\* sorted(events, key=lambda e: e.offset), on the sequence of the offsets
\* of the events: a stable sort, here by insertion from the right
RECURSIVE SortByOffset(_)
SortByOffset(offs) ==
    IF offs = <<>> THEN <<>>
    ELSE LET first == Head(offs)
             rest == SortByOffset(Tail(offs))
         IN SelectSeq(rest, LAMBDA o : o < first) \o <<first>>
              \o SelectSeq(rest, LAMBDA o : o >= first)

\* The loop of apply_batch: new_state = apply_event(new_state, event, ...)
\* for each event in turn (new_state is bound to the value of each step)
RECURSIVE FoldEvents(_, _, _, _)
FoldEvents(s, offs, rules_config, rules_hash) ==
    IF offs = <<>> THEN s
    ELSE CHOOSE folded \in
           {FoldEvents(new_state_1, Tail(offs), rules_config, rules_hash) :
              new_state_1 \in {apply_event(s, PressEvent(Head(offs)),
                                           rules_config, rules_hash)}} : TRUE

\* Variant of apply_batch that folds the events in the order of the list.
apply_batch_unsorted(s, offs, rules_config, rules_hash) ==
    FoldEvents(s, offs, rules_config, rules_hash)

\* updater.apply_batch
apply_batch(s, offs, rules_config, rules_hash) ==
    FoldEvents(s, SortByOffset(offs), rules_config, rules_hash)

\* Ingress or sweeper: a message lands in the log. parses is whether
\* json.loads and the two field lookups of main() succeed on it.
LogAppendOf(max_log, parse_outcomes) ==
    /\ UNCHANGED notReducer
    /\ Len(log) < max_log
    /\ \E p \in parse_outcomes :
         log' = Append(log, [timestamp_ms |-> Len(log) + 1,
                             request_id |-> Len(log) + 1,
                             parses |-> p])
    /\ UNCHANGED <<committed, rows, published, rpc, position, state,
                   new_state, msgs, backoff_attempt>>

LogAppendUpTo(max_log) == LogAppendOf(max_log, BOOLEAN)

LogAppend == LogAppendUpTo(MaxLog)

\* A message that ingress has built (send_message of a press): it parses
PressAppend == LogAppendOf(MaxLog, {TRUE})

\* Variant of the poll with the consumer's auto-commit on: the position is
\* committed as soon as the messages are handed out.
ReducerPollAutoCommit ==
    /\ UNCHANGED notReducer
    /\ rpc = "poll"
    /\ \E n \in 0..Min(kafka_max_batch_size, Len(log) - position) :
         /\ msgs' = [i \in 1..n |-> position + i - 1]
         /\ position' = position + n
         /\ committed' = position + n
         /\ rpc' = IF n = 0 THEN "poll" ELSE "fold"
    /\ UNCHANGED <<log, rows, published, state, new_state,
                   backoff_attempt>>

\* consumer.poll_batch_messages: between 0 and batch_size messages from the
\* consumer's position, which moves past them.
ReducerPoll ==
    /\ UNCHANGED notReducer
    /\ rpc = "poll"
    /\ \E n \in 0..Min(kafka_max_batch_size, Len(log) - position) :
         /\ msgs' = [i \in 1..n |-> position + i - 1]
         /\ position' = position + n
         /\ rpc' = IF n = 0 THEN "poll" ELSE "fold"
    /\ UNCHANGED <<log, committed, rows, published, state, new_state,
                   backoff_attempt>>

\* main(): the parse loop and apply_batch
ReducerFold ==
    /\ UNCHANGED notReducer
    /\ rpc = "fold"
    /\ IF \E i \in 1..Len(msgs) : ~log[msgs[i] + 1].parses
       THEN /\ rpc' = "except"
            /\ msgs' = <<>>
            /\ UNCHANGED new_state
       ELSE /\ new_state' = apply_batch(state, msgs,
                                        get_latest_rules.ruleset,
                                        get_latest_rules.hash)
            /\ rpc' = "persist"
            /\ msgs' = <<>>
    /\ UNCHANGED <<log, committed, rows, published, position, state,
                   backoff_attempt>>

\* Variant of write_state that inserts one row for each event of the batch
\* (here: a second row whenever the state folds more than one event).
write_state_per_event(s) ==
    LET row(n) == [id |-> n,
                   last_applied_offset |-> s.last_applied_offset,
                   ruleshash |-> s.ruleshash,
                   counter |-> s.counter,
                   phase |-> s.phase,
                   entropy |-> s.entropy,
                   reveal_until_ms |-> s.reveal_until_ms,
                   cooldown_ms |-> s.cooldown_ms,
                   updated_at_ms |-> s.updated_at_ms,
                   lineage |-> s.lineage]
    IN rows' = IF s.counter > 1
               THEN rows \o <<row(Len(rows) + 1), row(Len(rows) + 2)>>
               ELSE Append(rows, row(Len(rows) + 1))

\* writer.write_state: one INSERT in one transaction; the id is assigned by
\* the store (autoincrement primary key).
write_state(s) ==
    rows' = Append(rows, [id |-> Len(rows) + 1,
                          last_applied_offset |-> s.last_applied_offset,
                          ruleshash |-> s.ruleshash,
                          counter |-> s.counter,
                          phase |-> s.phase,
                          entropy |-> s.entropy,
                          reveal_until_ms |-> s.reveal_until_ms,
                          cooldown_ms |-> s.cooldown_ms,
                          updated_at_ms |-> s.updated_at_ms,
                          lineage |-> s.lineage])

\* persisted_global_state = write_state(new_state) returns
ReducerPersistOk(max_rows) ==
    /\ UNCHANGED notReducer
    /\ rpc = "persist"
    /\ Len(rows) < max_rows
    /\ write_state(new_state)
    /\ rpc' = "publish"
    /\ UNCHANGED new_state
    /\ UNCHANGED <<log, committed, published, position, state, msgs,
                   backoff_attempt>>

\* write_state raises (the store is down, the transaction fails)
ReducerPersistFail ==
    /\ UNCHANGED notReducer
    /\ rpc = "persist"
    /\ rpc' = "except"
    /\ new_state' = NoState
    /\ UNCHANGED rows
    /\ UNCHANGED <<log, committed, published, position, state, msgs,
                   backoff_attempt>>

ReducerPersist ==
    \/ ReducerPersistOk(MaxRows)
    \/ ReducerPersistFail

\* Variant in which the notification leaves before the row is committed: it
\* names the id that the next insert will be given.
ReducerPublishEarly ==
    /\ UNCHANGED notReducer
    /\ rpc = "publish"
    /\ published' = published \cup {Len(rows) + 1}
    /\ rpc' = "commit"
    /\ UNCHANGED <<log, committed, rows, position, state, new_state, msgs,
                   backoff_attempt>>

\* notify.publish_state_update returns
ReducerPublishOk ==
    /\ UNCHANGED notReducer
    /\ rpc = "publish"
    /\ published' = published \cup {LatestRow.id}
    /\ rpc' = "commit"
    /\ UNCHANGED <<log, committed, rows, position, state, new_state, msgs,
                   backoff_attempt>>

\* Variant in which an error of the publish reaches the handler of the
\* batch step.
ReducerPublishFailRaises ==
    /\ UNCHANGED notReducer
    /\ rpc = "publish"
    /\ rpc' = "except"
    /\ new_state' = NoState
    /\ UNCHANGED <<log, committed, rows, published, position, state, msgs,
                   backoff_attempt>>

\* notify.publish_state_update raises inside the bare try/except of main():
\* logged and swallowed
ReducerPublishFail ==
    /\ UNCHANGED notReducer
    /\ rpc = "publish"
    /\ UNCHANGED published
    /\ rpc' = "commit"
    /\ UNCHANGED <<log, committed, rows, position, state, new_state, msgs,
                   backoff_attempt>>

ReducerPublish ==
    \/ ReducerPublishOk
    \/ ReducerPublishFail

\* Variant of the successful end of a batch step that starts the back-off
\* over.
ReducerCommitOkResets ==
    /\ UNCHANGED notReducer
    /\ rpc = "commit"
    /\ committed' = position
    /\ state' = new_state
    /\ rpc' = "poll"
    /\ new_state' = NoState
    /\ backoff_attempt' = 0
    /\ UNCHANGED <<log, rows, published, position, msgs>>

\* consumer.commit(asynchronous=False): commits the consumer's position;
\* then state = new_state
ReducerCommitOk ==
    /\ UNCHANGED notReducer
    /\ rpc = "commit"
    /\ committed' = position
    /\ state' = new_state
    /\ rpc' = "poll"
    /\ new_state' = NoState
    /\ UNCHANGED <<log, rows, published, position, msgs, backoff_attempt>>

\* consumer.commit raises
ReducerCommitFail ==
    /\ UNCHANGED notReducer
    /\ rpc = "commit"
    /\ rpc' = "except"
    /\ UNCHANGED <<committed, state>>
    /\ new_state' = NoState
    /\ UNCHANGED <<log, rows, published, position, msgs, backoff_attempt>>

ReducerCommit ==
    \/ ReducerCommitOk
    \/ ReducerCommitFail

\* Variant of the delay without the cap.
backoff_delay_uncapped(attempt) == backoff_base_seconds * (2 ^ attempt)

\* main(): delay = min(max_backoff_seconds,
\*                     backoff_base_seconds * (2**backoff_attempt))
backoff_delay(attempt) ==
    Min(max_backoff_seconds, backoff_base_seconds * (2 ^ attempt))

\* main(): except Exception as batch_err
ReducerExcept ==
    /\ UNCHANGED notMain
    /\ rpc = "except"
    /\ IF backoff_attempt >= backoff_max_attempts
       THEN /\ rpc' = "down"          \* raise: the process ends
            /\ state' = NoState
            /\ position' = 0
            /\ UNCHANGED <<backoff_attempt, sleeps>>
       ELSE /\ sleeps' = Append(sleeps, backoff_delay(backoff_attempt))
            /\ backoff_attempt' = backoff_attempt + 1
            /\ rpc' = "poll"
            /\ UNCHANGED <<state, position>>
    /\ UNCHANGED <<log, committed, rows, published, new_state, msgs>>

\* The process is killed at any point of the loop; its memory is lost.
ReducerCrash ==
    /\ UNCHANGED notReducer
    /\ rpc # "down"
    /\ rpc' = "down"
    /\ state' = NoState
    /\ new_state' = NoState
    /\ msgs' = <<>>
    /\ position' = 0
    /\ backoff_attempt' = 0
    /\ UNCHANGED <<log, committed, rows, published>>

\* The process is killed after write_state has returned and before
\* consumer.commit has; the first row is the row it has just written.
ReducerCrashBeforeCommit ==
    /\ UNCHANGED notReducer
    /\ rpc \in {"publish", "commit"}
    /\ Len(rows) = 1
    /\ rpc' = "down"
    /\ state' = NoState
    /\ new_state' = NoState
    /\ msgs' = <<>>
    /\ position' = 0
    /\ backoff_attempt' = 0
    /\ UNCHANGED <<log, committed, rows, published>>

\* main() up to the loop: a new consumer of the group starts at the committed
\* offset, the state is the latest row or the initial state.
ReducerStart ==
    /\ UNCHANGED notMain
    /\ sleeps' = <<>>
    /\ rpc = "down"
    /\ position' = committed
    /\ state' = get_latest_state
    /\ new_state' = NoState
    /\ msgs' = <<>>
    /\ backoff_attempt' = 0
    /\ rpc' = "poll"
    /\ UNCHANGED <<log, committed, rows, published>>

InitReducer ==
    /\ log = <<>>
    /\ committed = 0
    /\ rows = <<>>
    /\ published = {}
    /\ rpc = "poll"
    /\ position = 0
    /\ state = get_initial_state(get_latest_rules.hash)
    /\ new_state = NoState
    /\ msgs = <<>>
    /\ backoff_attempt = 0
    /\ sleeps = <<>>

(***************************************************************************)
(* The PoW oracle                                                          *)
(***************************************************************************)

Tasks == 1..NumTasks

\* Challenge ids: those the server issues, and one it never issues
ChallengeIds == 1..(MaxChallenges + 1)

\* POW_BYPASS: the environment toggle, at its default
POW_BYPASS == FALSE

\* pow._sign_challenge: HMAC-SHA256 of "id:difficulty:expires_at" under the
\* process secret. The model takes the HMAC as injective and as computable
\* by the server only: the signature of a triple is the triple itself, and
\* a client holds issued signatures or Forged.
_sign_challenge(challenge_id, difficulty, expires_at) ==
    <<challenge_id, difficulty, expires_at>>

Forged == <<0, 0, 0>>

\* pow.generate_challenge, with the fresh random id given
generate_challenge(id) ==
    [challenge_id |-> id,
     difficulty |-> DEFAULT_DIFFICULTY,
     expires_at |-> clock + CHALLENGE_TTL_SECONDS,
     signature |-> _sign_challenge(id, DEFAULT_DIFFICULTY,
                                   clock + CHALLENGE_TTL_SECONDS)]

\* pow._verify_signature
_verify_signature(solution) ==
    _sign_challenge(solution.challenge_id, solution.difficulty,
                    solution.expires_at) = solution.signature

\* pow._compute_solution_hash: the SHA-256 of "id:nonce", of which only the
\* number of leading hex zeros is read. A fixed table stands for the hash:
\* per challenge one nonce gives 0, one 3 and one 4 zeros.
_compute_solution_hash(challenge_id, nonce) ==
    CASE (challenge_id + nonce) % 3 = 0 -> 0
      [] (challenge_id + nonce) % 3 = 1 -> DEFAULT_DIFFICULTY - 1
      [] OTHER -> DEFAULT_DIFFICULTY

\* The nonces a client tries: one per outcome of the table
Nonces == {0, 1, 2}

\* pow._check_hash_difficulty: hash_hex.startswith("0" * difficulty)
_check_hash_difficulty(zeros, difficulty) == zeros >= difficulty

\* The key pow:used:<id> is in the store (a key with a TTL is gone at its
\* expiry time).
KeyPresent(challenge_id) == used[challenge_id] > clock

\* Variant of the lookup that fails closed: a store error counts as used.
_is_challenge_used_fail_closed(challenge_id, raises) ==
    raises \/ KeyPresent(challenge_id)

\* pow._is_challenge_used: fail-open when the store raises
_is_challenge_used(challenge_id, raises) ==
    IF raises THEN FALSE ELSE KeyPresent(challenge_id)

\* Variant of the checks that looks at the used-set before the expiry.
verify_checks_used_first(solution, now, is_used) ==
    IF POW_BYPASS THEN ""
    ELSE IF ~_verify_signature(solution) THEN "Invalid challenge signature"
    ELSE IF is_used THEN "Challenge already used"
    ELSE IF now > solution.expires_at THEN "Challenge expired"
    ELSE IF ~_check_hash_difficulty(
                _compute_solution_hash(solution.challenge_id, solution.nonce),
                solution.difficulty)
         THEN "Invalid proof of work"
    ELSE ""

\* pow.verify_solution, steps 1 to 4: the error message, "" when every check
\* passes. is_used is the answer of _is_challenge_used, which the code asks
\* for only when the signature and the expiry checks have passed.
verify_checks(solution, now, is_used) ==
    IF POW_BYPASS THEN ""
    ELSE IF ~_verify_signature(solution) THEN "Invalid challenge signature"
    ELSE IF now > solution.expires_at THEN "Challenge expired"
    ELSE IF is_used THEN "Challenge already used"
    ELSE IF ~_check_hash_difficulty(
                _compute_solution_hash(solution.challenge_id, solution.nonce),
                solution.difficulty)
         THEN "Invalid proof of work"
    ELSE ""

\* verify_solution reaches the used-set lookup
ReachesUsedCheck(solution, now) ==
    /\ ~POW_BYPASS
    /\ _verify_signature(solution)
    /\ now <= solution.expires_at

\* What a client may send: any mix of the fields of the issued challenges,
\* a lowered difficulty, an extended expiry, a forged signature, any nonce.
Solutions ==
    [challenge_id : ChallengeIds,
     difficulty : {DEFAULT_DIFFICULTY - 1, DEFAULT_DIFFICULTY},
     expires_at : {issued[i].expires_at : i \in 1..Len(issued)}
                  \cup {issued[i].expires_at + CHALLENGE_TTL_SECONDS :
                          i \in 1..Len(issued)},
     signature : {issued[i].signature : i \in 1..Len(issued)} \cup {Forged},
     nonce : Nonces]

IdleTask == [pc |-> "idle", challenge_id |-> 0, remaining_ttl |-> 0]

NoVerify ==
    [solution |-> [challenge_id |-> 0, difficulty |-> 0, expires_at |-> 0,
                   signature |-> Forged, nonce |-> 0],
     now |-> 0, key_present |-> FALSE, lookup_raised |-> FALSE,
     marked |-> FALSE, error |-> "none"]

Saturate(n) == Min(n, MaxAccepted)

\* POST /v1/challenge: get_challenge
PowIssue ==
    /\ UNCHANGED notPow
    /\ last_verify = NoVerify
    /\ Len(issued) < MaxChallenges
    /\ issued' = Append(issued, generate_challenge(Len(issued) + 1))
    /\ UNCHANGED <<clock, used, ptask, accepted, pow_outage, last_verify>>

\* Time passes: a second, or the lifetime of a challenge.
PowTick ==
    /\ UNCHANGED notPow
    /\ last_verify = NoVerify
    /\ (clock \div CHALLENGE_TTL_SECONDS) + (clock % CHALLENGE_TTL_SECONDS)
         < MaxTicks
    /\ \E d \in {1, CHALLENGE_TTL_SECONDS} : clock' = clock + d
    /\ UNCHANGED <<issued, used, ptask, accepted, pow_outage, last_verify>>

\* Variant of the marking that writes nothing.
_mark_challenge_used_never(challenge_id, ttl, raises) == used' = used

\* Variant of the marking with a TTL of one second.
_mark_challenge_used_short(challenge_id, ttl, raises) ==
    used' = IF raises THEN used
            ELSE [used EXCEPT ![challenge_id] = clock + 1]

\* pow._mark_challenge_used: setex with the TTL; a store error is swallowed
_mark_challenge_used(challenge_id, ttl, raises) ==
    used' = IF raises THEN used
            ELSE [used EXCEPT ![challenge_id] = clock + ttl]

\* verify_solution of one request task, up to the answer of the used-set
\* lookup: signature, expiry, used-set, hash. A rejected call returns here;
\* a call that passed goes on to mark the challenge.
VerifyCheck(t) ==
    /\ UNCHANGED notPow
    /\ ptask[t].pc = "idle"
    /\ \E solution \in Solutions, raises \in BOOLEAN :
         LET now == clock
             err == verify_checks(solution, now,
                        _is_challenge_used(solution.challenge_id, raises))
         IN /\ raises => ReachesUsedCheck(solution, now)
            /\ pow_outage' = (pow_outage \/ raises)
            /\ ptask' = IF err = ""
                        THEN [ptask EXCEPT ![t] =
                               [pc |-> "mark",
                                challenge_id |-> solution.challenge_id,
                                remaining_ttl |-> solution.expires_at - now
                                                  + USED_TTL_BUFFER]]
                        ELSE ptask
    /\ UNCHANGED <<clock, issued, used, accepted, last_verify>>

\* ... and its last step: mark as used, return (True, None)
VerifyMark(t) ==
    /\ UNCHANGED notPow
    /\ ptask[t].pc = "mark"
    /\ \E raises \in BOOLEAN :
         /\ _mark_challenge_used(ptask[t].challenge_id,
                                 ptask[t].remaining_ttl, raises)
         /\ pow_outage' = (pow_outage \/ raises)
    /\ accepted' = [accepted EXCEPT ![ptask[t].challenge_id] =
                      Saturate(@ + 1)]
    /\ ptask' = [ptask EXCEPT ![t] = IdleTask]
    /\ UNCHANGED <<clock, issued, last_verify>>

\* Variant of verify_solution that also consumes the challenge when the hash
\* is insufficient.
reaches_mark_on_bad_hash(err) == err \in {"", "Invalid proof of work"}

\* verify_solution gets as far as _mark_challenge_used: every check in front
\* of it returns (False, message) when it fails
reaches_mark(err) == err = ""

\* pow.verify_solution as one call, start to return (requests one after the
\* other); last_verify records the call and what it saw.
VerifyCall ==
    /\ UNCHANGED notPow
    /\ last_verify = NoVerify
    /\ \E solution \in Solutions, raises1 \in BOOLEAN, raises2 \in BOOLEAN :
         LET now == clock
             err == verify_checks(solution, now,
                        _is_challenge_used(solution.challenge_id, raises1))
         IN /\ raises1 => ReachesUsedCheck(solution, now)
            /\ raises2 => err = ""
            /\ pow_outage' = (pow_outage \/ raises1 \/ raises2)
            /\ IF reaches_mark(err)
               THEN /\ _mark_challenge_used(solution.challenge_id,
                           solution.expires_at - now + USED_TTL_BUFFER,
                           raises2)
                    /\ accepted' = [accepted EXCEPT
                                      ![solution.challenge_id] = Saturate(@ + 1)]
               ELSE UNCHANGED <<used, accepted>>
            /\ last_verify' =
                 [solution |-> solution, now |-> now,
                  key_present |-> KeyPresent(solution.challenge_id),
                  lookup_raised |-> raises1,
                  marked |-> (err = "" /\ ~raises2),
                  error |-> err]
    /\ UNCHANGED <<clock, issued, ptask>>

\* The caller has taken the result of the call.
VerifyReturn ==
    /\ UNCHANGED notPow
    /\ last_verify # NoVerify
    /\ last_verify' = NoVerify
    /\ UNCHANGED <<clock, issued, used, ptask, accepted, pow_outage>>

InitPow ==
    /\ clock = 0
    /\ issued = <<>>
    /\ used = [id \in ChallengeIds |-> 0]
    /\ ptask = [t \in Tasks |-> IdleTask]
    /\ accepted = [id \in ChallengeIds |-> 0]
    /\ pow_outage = FALSE
    /\ last_verify = NoVerify

(***************************************************************************)
(* The rate limiter: one client IP, the two tiers of an endpoint           *)
(***************************************************************************)

\* RateLimitConfig of the two tiers of the press endpoint. The limits and
\* the sustained window are scaled down; the algorithm reads them only
\* through config.requests and config.window_seconds.
PRESS_BURST_LIMIT ==
    [requests |-> BurstRequests, window_seconds |-> BurstWindowSeconds,
     key_prefix |-> "rl:press:burst"]

PRESS_SUSTAINED_LIMIT ==
    [requests |-> SustainedRequests,
     window_seconds |-> SustainedWindowSeconds,
     key_prefix |-> "rl:press:sustained"]

Tiers == {PRESS_BURST_LIMIT.key_prefix, PRESS_SUSTAINED_LIMIT.key_prefix}

\* config.window_seconds in ticks
WindowTicks(config) == config.window_seconds * TicksPerSecond

SetMin(S) == CHOOSE x \in S : \A y \in S : x <= y

\* The sorted set under the key, as the store sees it now (an expired key
\* is gone).
ZsetLive(key) == IF rl_clock >= zset_expire[key] THEN {} ELSE zset[key]

\* First pipeline of check_rate_limit: zremrangebyscore(key, 0, window_start)
\* leaves the scores above now - window; zcard and zrange(0, 0) read them.
AfterEviction(config, now) ==
    {sc \in ZsetLive(config.key_prefix) : sc > now - WindowTicks(config)}

\* retry_after = max(1, int((oldest_time + window_seconds) - now) + 1)
retry_after_of(config, kept, now) ==
    IF kept = {} THEN 1
    ELSE Max(1, ((SetMin(kept) + WindowTicks(config) - now)
                   \div TicksPerSecond) + 1)

\* Variant of the limit test: the limit is reached one request late.
over_limit_off_by_one(config, current_count) ==
    current_count > config.requests

\* check_rate_limit: if current_count >= config.requests
over_limit(config, current_count) == current_count >= config.requests

\* Time between two requests of the sequential client, in ticks
RequestGaps ==
    {1, WindowTicks(PRESS_BURST_LIMIT),
     (PRESS_BURST_LIMIT.window_seconds + 1 + 1) * TicksPerSecond}

IdleRl == [pc |-> "idle", now |-> 0]

RlBudget ==
    Len(rl_log) + Cardinality({t \in Tasks : rltask[t].pc # "idle"})
        < MaxRlRequests

\* Time passes by one tick.
RlTick ==
    /\ UNCHANGED notRl
    /\ rl_clock < MaxRlClock
    /\ rl_clock' = rl_clock + 1
    /\ UNCHANGED <<zset, zset_expire, rltask, rl_log, rl_outage>>

\* check_rate_limit of one request task on the burst tier, up to the answer
\* of the first pipeline: a request over the limit is answered here, a
\* request under it goes on to the second pipeline. A pipeline that raises
\* admits the request (fail open).
RlCheck(t) ==
    /\ UNCHANGED notRl
    /\ rltask[t].pc = "idle"
    /\ RlBudget
    /\ LET config == PRESS_BURST_LIMIT
           key == config.key_prefix
           now == rl_clock
           kept == AfterEviction(config, now)
       IN \/ /\ over_limit(config, Cardinality(kept))
             /\ zset' = [zset EXCEPT ![key] = kept]
             /\ rl_log' = Append(rl_log,
                    [now |-> now, allowed |-> FALSE,
                     retry_after |-> retry_after_of(config, kept, now)])
             /\ UNCHANGED <<rltask, rl_outage>>
          \/ /\ ~over_limit(config, Cardinality(kept))
             /\ zset' = [zset EXCEPT ![key] = kept]
             /\ rltask' = [rltask EXCEPT ![t] = [pc |-> "add", now |-> now]]
             /\ UNCHANGED <<rl_log, rl_outage>>
          \/ /\ rl_outage' = TRUE          \* pipe.execute() raised
             /\ rl_log' = Append(rl_log,
                    [now |-> now, allowed |-> TRUE, retry_after |-> 0])
             /\ UNCHANGED <<zset, rltask>>
    /\ UNCHANGED <<rl_clock, zset_expire>>

\* ... and its second pipeline: zadd(key, {str(now): now}), expire(key,
\* window + 1), return (True, remaining, 0)
RlAdd(t) ==
    /\ UNCHANGED notRl
    /\ rltask[t].pc = "add"
    /\ LET config == PRESS_BURST_LIMIT
           key == config.key_prefix
       IN \/ /\ zset' = [zset EXCEPT ![key] =
                           ZsetLive(key) \cup {rltask[t].now}]
             /\ zset_expire' = [zset_expire EXCEPT ![key] =
                   rl_clock + (config.window_seconds + KeyTtlExtraSeconds)
                                * TicksPerSecond]
             /\ UNCHANGED rl_outage
          \/ /\ rl_outage' = TRUE          \* pipe2.execute() raised
             /\ UNCHANGED <<zset, zset_expire>>
    /\ rl_log' = Append(rl_log,
           [now |-> rltask[t].now, allowed |-> TRUE, retry_after |-> 0])
    /\ rltask' = [rltask EXCEPT ![t] = IdleRl]
    /\ UNCHANGED rl_clock

\* Where a call of check_rate_limit may meet a store error
RlFaults == {"none", "pipe", "pipe2"}

\* check_rate_limit as one call at time now: the answer, and the sorted set
\* and its expiry as the call leaves them. An exception of either pipeline
\* is caught and the request allowed.
check_rate_limit(config, now, fault) ==
    LET key == config.key_prefix
        kept == AfterEviction(config, now)
    IN IF fault = "pipe"
       THEN [allowed |-> TRUE, retry_after |-> 0, members |-> zset[key],
             expire_at |-> zset_expire[key], raised |-> TRUE]
       ELSE IF over_limit(config, Cardinality(kept))
       THEN [allowed |-> FALSE,
             retry_after |-> retry_after_of(config, kept, now),
             members |-> kept, expire_at |-> zset_expire[key],
             raised |-> FALSE]
       ELSE IF fault = "pipe2"
       THEN [allowed |-> TRUE, retry_after |-> 0, members |-> kept,
             expire_at |-> zset_expire[key], raised |-> TRUE]
       ELSE [allowed |-> TRUE, retry_after |-> 0,
             members |-> kept \cup {now},
             expire_at |-> now + (config.window_seconds + KeyTtlExtraSeconds)
                                   * TicksPerSecond,
             raised |-> FALSE]

\* check_rate_limit called by one client whose requests follow one another:
\* the whole call, and then the time until the client's next request
\* (time.time() of a later call is later).
RlCall ==
    /\ UNCHANGED notRl
    /\ RlBudget
    /\ \A t \in Tasks : rltask[t].pc = "idle"
    /\ \E fault \in RlFaults :
         LET config == PRESS_BURST_LIMIT
             key == config.key_prefix
             r == check_rate_limit(config, rl_clock, fault)
         IN /\ zset' = [zset EXCEPT ![key] = r.members]
            /\ zset_expire' = [zset_expire EXCEPT ![key] = r.expire_at]
            /\ rl_outage' = (rl_outage \/ r.raised)
            /\ rl_log' = Append(rl_log,
                   [now |-> rl_clock, allowed |-> r.allowed,
                    retry_after |-> r.retry_after])
    /\ \E d \in RequestGaps : rl_clock' = rl_clock + d
    /\ UNCHANGED rltask

InitRl ==
    /\ rl_clock = 1
    /\ zset = [k \in Tiers |-> {}]
    /\ zset_expire = [k \in Tiers |-> 0]
    /\ rltask = [t \in Tasks |-> IdleRl]
    /\ rl_log = <<>>
    /\ rl_outage = FALSE

(***************************************************************************)
(* POST /v1/events/press: rate limit, proof of work, produce, flush        *)
(***************************************************************************)

\* A rate_limit_request that never consults the blocklist.
is_ip_blocked_never(raises) == FALSE

\* ratelimiter.is_ip_blocked: sismember, fail-open when the store raises
is_ip_blocked(raises) == IF raises THEN FALSE ELSE blocklist

\* ratelimiter.block_ip
block_ip ==
    /\ UNCHANGED notPress
    /\ ~blocklist
    /\ blocklist' = TRUE
    /\ UNCHANGED <<log, clock, issued, used, rl_clock, zset, zset_expire,
                   pqueue, flushing, press_count, store_errors,
                   sent_unchecked, last_press>>

\* ratelimiter.unblock_ip
unblock_ip ==
    /\ UNCHANGED notPress
    /\ blocklist
    /\ blocklist' = FALSE
    /\ UNCHANGED <<log, clock, issued, used, rl_clock, zset, zset_expire,
                   pqueue, flushing, press_count, store_errors,
                   sent_unchecked, last_press>>

\* Time passes: a tick, and after the last tick the window of the burst
\* tier; int(time.time()) is the clock of the proof of work.
PressTick ==
    /\ UNCHANGED notPress
    /\ rl_clock <= MaxPressClock
    /\ LET d == IF rl_clock < MaxPressClock THEN 1
                ELSE WindowTicks(PRESS_BURST_LIMIT)
       IN /\ rl_clock' = rl_clock + d
          /\ clock' = (rl_clock + d) \div TicksPerSecond
    /\ UNCHANGED <<log, issued, used, zset, zset_expire, blocklist, pqueue,
                   flushing, press_count, store_errors, sent_unchecked, last_press>>

\* Time passes: the lifetime of a challenge and a second, once.
PressExpire ==
    /\ UNCHANGED notPress
    /\ clock < CHALLENGE_TTL_SECONDS
    /\ rl_clock' = rl_clock + (CHALLENGE_TTL_SECONDS + 1) * TicksPerSecond
    /\ clock' = (rl_clock + (CHALLENGE_TTL_SECONDS + 1) * TicksPerSecond)
                   \div TicksPerSecond
    /\ UNCHANGED <<log, issued, used, zset, zset_expire, blocklist, pqueue,
                   flushing, press_count, store_errors, sent_unchecked, last_press>>

\* Variant of the test of the verdict: an invalid solution is let through.
pow_rejects_never(is_valid) == FALSE

\* press_button: if not is_valid: raise HTTPException(400)
pow_rejects(is_valid) == ~is_valid

\* What producer.produce does with the message
ProduceOutcomes == {"queued", "BufferError", "KafkaException"}

\* The checks in front of send_message
AllChecks == {"blocklist", "burst", "sustained", "pow"}

NoPress ==
    [request_id |-> 0, passed |-> {}, status |-> 0, timestamp_ms |-> 0,
     fault |-> "none", used_rejected |-> FALSE, challenge_id |-> 0]

\* The answer to the request that is being handled: the checks it passed,
\* the status (0 while it waits in flush_producer), and timestamp_ms, which
\* only a request that reaches send_message has. Kept with it: the store
\* error the request met, and whether verify_solution answered "Challenge
\* already used", and the challenge that verify_solution was called on.
PressAnswerFor(challenge_id, passed, status, timestamp_ms, fault, error) ==
    /\ press_count' = press_count + 1
    /\ last_press' = [request_id |-> press_count + 1, passed |-> passed,
                      status |-> status, timestamp_ms |-> timestamp_ms,
                      fault |-> fault,
                      used_rejected |-> error = "Challenge already used",
                      challenge_id |-> challenge_id]
    /\ sent_unchecked' =
         IF status \in {0, 202} /\ passed # AllChecks
         THEN sent_unchecked \cup {press_count + 1}
         ELSE sent_unchecked

\* The answer to a request that is turned away before verify_solution
PressAnswer(passed, status, timestamp_ms, fault, error) ==
    PressAnswerFor(0, passed, status, timestamp_ms, fault, error)

\* The sorted sets of the two press tiers after check_rate_limits: b is the
\* answer of the burst tier, s that of the sustained tier when it was asked.
PressTiers(b, asked_sustained, s) ==
    LET bk == PRESS_BURST_LIMIT.key_prefix
        sk == PRESS_SUSTAINED_LIMIT.key_prefix
    IN /\ zset' = [zset EXCEPT
                     ![bk] = b.members,
                     ![sk] = IF asked_sustained THEN s.members ELSE @]
       /\ zset_expire' = [zset_expire EXCEPT
                     ![bk] = b.expire_at,
                     ![sk] = IF asked_sustained THEN s.expire_at ELSE @]

\* What the press client sends: an issued challenge with its signature and
\* any nonce, or with a forged signature (which is turned away before the
\* nonce is read, so one nonce stands for all).
PressSolutions ==
    UNION {{[challenge_id |-> issued[i].challenge_id,
             difficulty |-> issued[i].difficulty,
             expires_at |-> issued[i].expires_at,
             signature |-> sg,
             nonce |-> n] : sg \in {issued[i].signature},
                            n \in Nonces} : i \in 1..Len(issued)}
    \cup {[challenge_id |-> issued[i].challenge_id,
            difficulty |-> issued[i].difficulty,
            expires_at |-> issued[i].expires_at,
            signature |-> Forged,
            nonce |-> 0] : i \in 1..Len(issued)}

\* Where one press request may meet a store error: the blocklist lookup,
\* a pipeline of either tier, the used-set lookup, the used-set write
PressFaults ==
    {"none", "blocklist", "burst_pipe", "burst_pipe2", "sustained_pipe",
     "sustained_pipe2", "used", "mark"}

\* The fault of check_rate_limit for the tier, given that of the request
TierFault(fault, tier) ==
    IF fault = tier \o "_pipe" THEN "pipe"
    ELSE IF fault = tier \o "_pipe2" THEN "pipe2"
    ELSE "none"

\* press_button from verify_solution on, for a request that the dependency
\* rate_limit_press let through: 400 for an invalid solution; else the
\* challenge is marked, the message produced, and flush_producer called.
PressVerifyAndSend(passed_limits, fault) ==
    \E solution \in PressSolutions, sent \in ProduceOutcomes :
      LET r1 == fault = "used"
          r2 == fault = "mark"
          err == verify_checks(solution, clock,
                     _is_challenge_used(solution.challenge_id, r1))
          is_valid == err = ""
          passed == IF is_valid THEN passed_limits \cup {"pow"}
                    ELSE passed_limits
      IN /\ r1 => /\ ReachesUsedCheck(solution, clock)
                  /\ KeyPresent(solution.challenge_id)
         /\ r2 => is_valid
         /\ sent # "queued" => ~pow_rejects(is_valid)
         /\ IF is_valid
            THEN _mark_challenge_used(solution.challenge_id,
                     solution.expires_at - clock + USED_TTL_BUFFER, r2)
            ELSE UNCHANGED used
         /\ IF pow_rejects(is_valid)
            THEN /\ PressAnswerFor(solution.challenge_id, passed, 400, 0, fault, err)
                 /\ UNCHANGED <<pqueue, flushing>>
            ELSE IF sent # "queued"
            THEN /\ PressAnswerFor(solution.challenge_id, passed, 503, rl_clock, fault, err)
                 /\ UNCHANGED <<pqueue, flushing>>
            ELSE /\ PressAnswerFor(solution.challenge_id, passed, 0, rl_clock, fault, err)
                 /\ pqueue' = pqueue \cup
                       {[timestamp_ms |-> rl_clock,
                         request_id |-> press_count + 1]}
                 /\ flushing' = press_count + 1

\* press_button up to the call of flush_producer: the dependency
\* rate_limit_press (rate_limit_request: blocklist, 403; then
\* check_rate_limits over the two press tiers in order, 429), and then
\* verify_solution and send_message. A request that is turned away, or whose
\* produce raises, is answered here. A request meets at most one store
\* error.
press_button ==
    /\ UNCHANGED notPress
    /\ flushing = 0
    /\ press_count < MaxPress
    /\ UNCHANGED <<log, clock, issued, rl_clock, blocklist>>
    /\ \E fault \in PressFaults :
         /\ fault # "none" => store_errors < MaxStoreErrors
         /\ store_errors' = IF fault = "none" THEN store_errors
                            ELSE store_errors + 1
         /\ fault = "blocklist" => blocklist
         /\ IF is_ip_blocked(fault = "blocklist")
            THEN /\ fault = "none"
                 /\ PressAnswer({}, 403, 0, fault, "")
                 /\ UNCHANGED <<zset, zset_expire, used, pqueue, flushing>>
            ELSE
              LET f1 == TierFault(fault, "burst")
                  f2 == TierFault(fault, "sustained")
                  b == check_rate_limit(PRESS_BURST_LIMIT, rl_clock, f1)
                  s == check_rate_limit(PRESS_SUSTAINED_LIMIT, rl_clock, f2)
              IN /\ f1 # "none" => b.raised
                 /\ f2 # "none" => b.allowed /\ s.raised
                 /\ fault \in {"used", "mark"} => b.allowed /\ s.allowed
                 /\ PressTiers(b, b.allowed, s)
                 /\ IF ~b.allowed
                    THEN /\ PressAnswer({"blocklist"}, 429, 0, fault, "")
                         /\ UNCHANGED <<used, pqueue, flushing>>
                    ELSE IF ~s.allowed
                    THEN /\ PressAnswer({"blocklist", "burst"}, 429, 0, fault,
                                     "")
                         /\ UNCHANGED <<used, pqueue, flushing>>
                    ELSE PressVerifyAndSend(
                            {"blocklist", "burst", "sustained"}, fault)

\* The broker acknowledges a queued message: it is in the log, and
\* delivery_callback(None, msg) runs.
BrokerAck ==
    /\ UNCHANGED notPress
    /\ \E m \in pqueue :
         /\ log' = Append(log, [timestamp_ms |-> m.timestamp_ms,
                                request_id |-> m.request_id,
                                parses |-> TRUE])
         /\ pqueue' = pqueue \ {m}
    /\ UNCHANGED <<clock, issued, used, rl_clock, zset, zset_expire,
                   blocklist, flushing, press_count, store_errors, sent_unchecked,
                   last_press>>

\* The delivery of a queued message fails for good: delivery_callback(err,
\* msg) logs the error, and the message leaves the queue.
BrokerFail ==
    /\ UNCHANGED notPress
    /\ \E m \in pqueue : pqueue' = pqueue \ {m}
    /\ UNCHANGED <<log, clock, issued, used, rl_clock, zset, zset_expire,
                   blocklist, flushing, press_count, store_errors, sent_unchecked,
                   last_press>>

\* flush_producer returns to press_button: with nothing left in the queue
\* the answer is 202, with messages left when the timeout ends it is 503.
flush_returns ==
    /\ UNCHANGED notPress
    /\ flushing # 0
    /\ LET remaining == Cardinality(pqueue)
       IN last_press' = [last_press EXCEPT !.status =
                           IF remaining > 0 THEN 503 ELSE 202]
    /\ flushing' = 0
    /\ UNCHANGED <<log, clock, issued, used, rl_clock, zset, zset_expire,
                   blocklist, pqueue, press_count, store_errors, sent_unchecked>>

InitPress ==
    /\ blocklist = FALSE
    /\ pqueue = {}
    /\ flushing = 0
    /\ press_count = 0
    /\ store_errors = 0
    /\ sent_unchecked = {}
    /\ last_press = NoPress

(***************************************************************************)
(* GET /v1/states/stream: the listener on the channel of state updates     *)
(***************************************************************************)

\* notify.publish_state_update: the JSON object published for a row
publish_state_update(row) ==
    [type |-> "state_updated", id |-> row.id,
     last_applied_offset |-> row.last_applied_offset,
     ruleshash |-> row.ruleshash]

\* The fields of the dataclass shared.models.PersistedGlobalState, none of
\* which has a default
PersistedGlobalStateFields ==
    {"id", "last_applied_offset", "ruleshash", "created_at"}

\* PersistedGlobalState(**data_dict) returns (it raises TypeError for a
\* missing field and for a key that is not a field)
ConstructsPersistedGlobalState(data_dict) ==
    DOMAIN data_dict = PersistedGlobalStateFields

\* state.get_state_by_id: the committed row of the id, as a dictionary; a
\* dictionary without fields stands for LookupError("No global state found")
get_state_by_id(id) ==
    IF \E n \in 1..Len(rows) : rows[n].id = id
    THEN LET row == rows[CHOOSE n \in 1..Len(rows) : rows[n].id = id]
         IN [id |-> row.id, last_applied_offset |-> row.last_applied_offset,
             updated_at_ms |-> row.updated_at_ms, counter |-> row.counter,
             phase |-> row.phase, entropy |-> row.entropy,
             reveal_until_ms |-> row.reveal_until_ms,
             cooldown_ms |-> row.cooldown_ms, ruleshash |-> row.ruleshash]
    ELSE <<>>

\* The notifications delivered to the subscriber and not yet read: those
\* published since it subscribed
PendingNotifications == (published \ missed) \ consumed

\* stream_state, listen_on_pubsub: p.subscribe(channel)
StreamOpen ==
    /\ UNCHANGED notFan
    /\ sub = "none"
    /\ sub' = "listening"
    /\ missed' = published
    /\ UNCHANGED <<consumed, stream, disconnected>>

\* The client of the stream goes away. Nothing of stream_state or of
\* listen_on_pubsub runs at this point: both are suspended in
\* `async for message in p.listen()`.
ClientDisconnect ==
    /\ UNCHANGED notFan
    /\ sub = "listening"
    /\ ~disconnected
    /\ disconnected' = TRUE
    /\ UNCHANGED <<sub, missed, consumed, stream>>

\* One turn of `async for message in p.listen()` in listen_on_pubsub and of
\* `async for update in listen_on_pubsub(...)` in stream_state, for the
\* oldest notification delivered: json.loads, PersistedGlobalState(**data_dict),
\* then `if await request.is_disconnected(): break` (the generator of the
\* listener is closed and its finally block unsubscribes and closes), else
\* get_state_by_id(update.id), one state_update event. An exception of the
\* listener is re-raised after the clean-up, and stream_state answers it
\* with one error event, which ends the stream.
FanoutReceive ==
    /\ UNCHANGED notFan
    /\ sub = "listening"
    /\ PendingNotifications # {}
    /\ LET i == SetMin(PendingNotifications)
           data_dict == publish_state_update(rows[i])
       IN /\ consumed' = consumed \cup {i}
          /\ IF ~ConstructsPersistedGlobalState(data_dict)
             THEN /\ stream' = Append(stream, [event |-> "error", id |-> 0])
                  /\ sub' = "ended"
             ELSE IF disconnected
             THEN /\ sub' = "ended"
                  /\ UNCHANGED stream
             ELSE IF get_state_by_id(data_dict.id) = <<>>
             THEN /\ stream' = Append(stream, [event |-> "error", id |-> 0])
                  /\ sub' = "ended"
             ELSE /\ stream' = Append(stream,
                         [event |-> "state_update",
                          id |-> get_state_by_id(data_dict.id).id])
                  /\ UNCHANGED sub
    /\ UNCHANGED <<missed, disconnected>>

\* listen_on_pubsub: except (ConnectionError, TimeoutError): logged, the
\* generator ends after the clean-up and the stream closes without an event.
FanoutConnectionLost ==
    /\ UNCHANGED notFan
    /\ sub = "listening"
    /\ sub' = "ended"
    /\ UNCHANGED <<missed, consumed, stream, disconnected>>

InitFan ==
    /\ sub = "none"
    /\ missed = {}
    /\ consumed = {}
    /\ stream = <<>>
    /\ disconnected = FALSE

(***************************************************************************)
(* The idle sweeper (watcher)                                              *)
(***************************************************************************)

\* watcher/main.py: interval = getattr(settings, "watcher_interval_seconds", 30)
watcher_interval_seconds == 30

\* The request_id f"phase_transition:{n}" of a synthetic event. User presses
\* carry positive ids in the model; the synthetic ones are kept apart from
\* them as negative numbers.
phase_transition(n) == -(n + 1)

IsSynthetic(message) == message.request_id < 0

\* Variant of the rules lookup that takes the latest ruleset.
sweeper_rules_latest(s) == get_latest_rules.ruleset

\* watcher_lambda: _, rules_config = get_rules_by_hash(state["ruleshash"])
sweeper_rules(s) == get_rules_by_hash(s.ruleshash)

\* Variant of the tests in which only CHAOS cools down.
should_transition_chaos_only(current_phase, age, rules_config) ==
    /\ current_phase = Phases.CHAOS
    /\ age >= rules_config.cooldown_chaos_ms

\* watcher_lambda: the chain of tests that sets should_transition
should_transition(current_phase, age, rules_config) ==
    IF current_phase = Phases.CHAOS THEN age >= rules_config.cooldown_chaos_ms
    ELSE IF current_phase = Phases.HOT
    THEN age >= rules_config.cooldown_chaos_ms
    ELSE IF current_phase = Phases.WARM
    THEN age >= rules_config.cooldown_warm_ms
    ELSE IF current_phase # Phases.CALM
    THEN age >= rules_config.cooldown_calm_ms
    ELSE FALSE

\* watcher_lambda at the time timestamp_ms: shared.state.get_latest_state
\* (LookupError when there is no row: nothing is sent), the rules of the
\* state, the age, and one send_message when the cooldown has run out. The
\* message produced is taken to reach the log.
watcher_lambda(timestamp_ms) ==
    IF rows = <<>> THEN UNCHANGED log
    ELSE LET s == LatestRow
             rules_config == sweeper_rules(s)
             age == timestamp_ms - s.updated_at_ms
         IN IF should_transition(s.phase, age, rules_config)
            THEN log' = Append(log,
                     [timestamp_ms |-> timestamp_ms,
                      request_id |-> phase_transition(timestamp_ms \div 60),
                      parses |-> TRUE])
            ELSE UNCHANGED log

\* The time between two invocations: none (both fall in one bucket of the
\* request_id), less than any cooldown, the interval of the periodic loop
SweepGaps == {0, 900, watcher_interval_seconds * 1000}

\* One invocation of watcher_lambda, at any moment
SweeperTick ==
    /\ UNCHANGED notSweep
    /\ sweeps < MaxSweeps
    /\ sweeps' = sweeps + 1
    /\ \E gap \in SweepGaps :
         /\ now_ms' = now_ms + gap
         /\ watcher_lambda(now_ms + gap)

\* watcher/main.py, one turn of the loop: the sleep of the interval and the
\* invocation that follows it
SweeperLoop ==
    /\ UNCHANGED notSweep
    /\ sweeps < MaxLoops
    /\ sweeps' = sweeps + 1
    /\ now_ms' = now_ms + watcher_interval_seconds * 1000
    /\ watcher_lambda(now_ms + watcher_interval_seconds * 1000)

\* write_state in the specifications of the sweeper: every event that the
\* sweeper can send has room for its row
SweeperPersist == ReducerPersistOk(1 + MaxSweeps + MaxLoops)

\* The entropy of the state the sweeper finds: one value per phase, and
\* one that a single decay step brings onto the calm threshold
SweptEntropies == {100, 375, 700, 1000}

\* The state of the store when the sweeper comes into play: one row, left
\* by presses that the single message at offset 0 stands for, under either
\* ruleset, and a reducer that has loaded it.
SweptRow(rules_hash, entropy) ==
    LET rules_config == get_rules_by_hash(rules_hash)
        phase == transition_phase(entropy, rules_config)
    IN [id |-> 1, last_applied_offset |-> 0, ruleshash |-> rules_hash,
        counter |-> 1, phase |-> phase, entropy |-> entropy,
        reveal_until_ms |-> compute_reveal_until_ms(0, 60, phase,
                                                    rules_config),
        cooldown_ms |-> compute_cooldown_ms(phase, entropy, rules_config),
        updated_at_ms |-> 60, lineage |-> {0}]

InitSweeper ==
    /\ now_ms = 0
    /\ sweeps = 0

InitSwept ==
    /\ log = <<[timestamp_ms |-> 60, request_id |-> 1, parses |-> TRUE]>>
    /\ committed = 1
    /\ position = 1
    /\ \E h \in RulesHashes, e \in SweptEntropies : rows = <<SweptRow(h, e)>>
    /\ state = get_latest_state
    /\ published = {1}
    /\ rpc = "poll"
    /\ new_state = NoState
    /\ msgs = <<>>
    /\ backoff_attempt = 0
    /\ sleeps = <<>>

\* The inputs of apply_event: the timestamp of the event, which ingress
\* and sweeper read from their clocks before the log assigns the offset,
\* so that it may lie before the timestamp of an earlier offset
FoldTimestamps == {30, 61, 90, 30060}

\* One call of updater.apply_event, on the state and the next event of the
\* log, under the rules that main() has loaded
FoldEvent ==
    /\ UNCHANGED notReducer
    /\ Len(log) < MaxFolds
    /\ \E ts \in FoldTimestamps :
         LET event == [offset |-> Len(log), timestamp_ms |-> ts,
                       request_id |-> Len(log) + 1]
         IN /\ log' = Append(log, [timestamp_ms |-> ts,
                                   request_id |-> Len(log) + 1,
                                   parses |-> TRUE])
            /\ state' = apply_event(state, event, get_latest_rules.ruleset,
                                    get_latest_rules.hash)
    /\ UNCHANGED <<committed, rows, published, rpc, position, new_state,
                   msgs, backoff_attempt>>

(***************************************************************************)
(* The parsing of one message by its consumer                              *)
(***************************************************************************)

\* The values a JSON field takes in the model
WireValues == {1, 2}

\* The JSON objects with keys among the given ones
JsonObjects(keys) == UNION {[K -> WireValues] : K \in SUBSET keys}

\* The keys main() reads from the payload of a log message
PressEventFields == {"timestamp_ms", "request_id"}

\* Log messages: the two fields, any of them missing, and fields unknown to
\* the reducer
LogObjects ==
    JsonObjects(PressEventFields \cup {"new_field", "another_new_field"})

\* Channel messages: the fields of the dataclass, the key type that the
\* reducer publishes, any of them missing, and a field unknown to both
ChannelObjects ==
    JsonObjects(PersistedGlobalStateFields \cup {"type", "future_field"})

\* The object without the keys that are not in known
Strip(data, known) == [k \in DOMAIN data \cap known |-> data[k]]

NotHandled == [done |-> FALSE, ok |-> FALSE, value |-> <<>>]

\* main(): payload = json.loads(msg.value()), then payload["timestamp_ms"]
\* and payload["request_id"]; a missing key raises KeyError, any other key
\* is not read.
parse_press_event(payload) ==
    IF PressEventFields \subseteq DOMAIN payload
    THEN [done |-> TRUE, ok |-> TRUE,
          value |-> [timestamp_ms |-> payload["timestamp_ms"],
                     request_id |-> payload["request_id"]]]
    ELSE [done |-> TRUE, ok |-> FALSE, value |-> <<>>]

\* listen_on_pubsub: data_dict = json.loads(raw_data), then
\* PersistedGlobalState(**data_dict)
parse_state_update(data_dict) ==
    IF ConstructsPersistedGlobalState(data_dict)
    THEN [done |-> TRUE, ok |-> TRUE, value |-> data_dict]
    ELSE [done |-> TRUE, ok |-> FALSE, value |-> <<>>]

\* The reducer parses the log message
ReducerParse ==
    /\ UNCHANGED notWire
    /\ wire.kind = "log"
    /\ ~handled.done
    /\ handled' = parse_press_event(wire.data)
    /\ UNCHANGED wire

\* The listener parses the channel message
ListenerParse ==
    /\ UNCHANGED notWire
    /\ wire.kind = "channel"
    /\ ~handled.done
    /\ handled' = parse_state_update(wire.data)
    /\ UNCHANGED wire

NoWire == [kind |-> "none", data |-> <<>>]

InitWire ==
    /\ wire = NoWire
    /\ handled = NotHandled

(***************************************************************************)
(* Reducer instances side by side (duplicate consumer)                     *)
(***************************************************************************)

Reducers == 1..NumReducers

\* An instance that is not running
NoDup == [pc |-> "off", position |-> 0, state |-> NoState,
          new_state |-> NoState, msgs |-> <<>>, persisted_id |-> 0]

\* main() up to the loop, in one instance: the consumer starts at the
\* committed offset of the group, the state is the latest row or the
\* initial state.
DupStarted ==
    [pc |-> "poll", position |-> committed, state |-> get_latest_state,
     new_state |-> NoState, msgs |-> <<>>, persisted_id |-> 0]

\* consumer.poll_batch_messages in instance r: the consumer of each instance
\* keeps its own position.
DupPoll(r) ==
    /\ UNCHANGED notDup
    /\ dup[r].pc = "poll"
    /\ \E n \in 0..Min(kafka_max_batch_size, Len(log) - dup[r].position) :
         dup' = [dup EXCEPT
                   ![r].msgs = [i \in 1..n |-> dup[r].position + i - 1],
                   ![r].position = @ + n,
                   ![r].pc = IF n = 0 THEN "poll" ELSE "fold"]
    /\ UNCHANGED <<committed, rows, published>>

\* main() in instance r: the parse loop and apply_batch (every message of
\* this log parses)
DupFold(r) ==
    /\ UNCHANGED notDup
    /\ dup[r].pc = "fold"
    /\ dup' = [dup EXCEPT
                 ![r].new_state = apply_batch(dup[r].state, dup[r].msgs,
                                              get_latest_rules.ruleset,
                                              get_latest_rules.hash),
                 ![r].msgs = <<>>,
                 ![r].pc = "persist"]
    /\ UNCHANGED <<committed, rows, published>>

\* write_state in instance r: the INSERT goes to the one table both
\* instances write.
DupPersist(r) ==
    /\ UNCHANGED notDup
    /\ dup[r].pc = "persist"
    /\ Len(rows) < MaxDupRows
    /\ write_state(dup[r].new_state)
    /\ dup' = [dup EXCEPT ![r].pc = "publish",
                          ![r].persisted_id = Len(rows) + 1]
    /\ UNCHANGED <<committed, published>>

\* publish_state_update in instance r, for the row it has just written
\* (persisted_global_state); a failure is swallowed.
DupPublish(r) ==
    /\ UNCHANGED notDup
    /\ dup[r].pc = "publish"
    /\ \/ published' = published \cup {dup[r].persisted_id}
       \/ UNCHANGED published
    /\ dup' = [dup EXCEPT ![r].pc = "commit"]
    /\ UNCHANGED <<committed, rows>>

\* consumer.commit(asynchronous=False) in instance r commits the position
\* of its own consumer; then state = new_state.
DupCommit(r) ==
    /\ UNCHANGED notDup
    /\ dup[r].pc = "commit"
    /\ committed' = dup[r].position
    /\ dup' = [dup EXCEPT ![r].state = dup[r].new_state,
                          ![r].new_state = NoState,
                          ![r].persisted_id = 0,
                          ![r].pc = "poll"]
    /\ UNCHANGED <<rows, published>>

InitDup == dup = [r \in Reducers |-> NoDup]

\* Both instances have started on a log that holds MaxLog presses; nothing
\* is committed and no row is written yet.
InitDuplicates ==
    /\ log = [i \in 1..MaxLog |-> [timestamp_ms |-> i, request_id |-> i,
                                    parses |-> TRUE]]
    /\ committed = 0
    /\ rows = <<>>
    /\ published = {}
    /\ rpc = "down"
    /\ position = 0
    /\ state = NoState
    /\ new_state = NoState
    /\ msgs = <<>>
    /\ backoff_attempt = 0
    /\ sleeps = <<>>
    /\ dup = [r \in Reducers |-> DupStarted]

(***************************************************************************)
(* The health endpoints                                                    *)
(***************************************************************************)

\* The dependencies that the health endpoints probe
Dependencies == {"redis", "kafka", "database"}

\* What a probe meets: the dependency answers well ("ok"), it answers but
\* not well ("bad": PING returns False, the metadata names no broker), or
\* the call raises. A SELECT 1 that returns is always taken as well.
DepAnswers(name) ==
    IF name = "database" THEN {"ok", "raises"} ELSE {"ok", "bad", "raises"}

\* health.check_redis_health, check_kafka_health, check_database_health:
\* the field healthy of the HealthCheckResult; every exception is caught.
check_health(name) == deps[name] = "ok"

\* A dict without entries
EmptyChecks == [name \in {} |-> TRUE]

\* Variant of the aggregation that looks for a healthy check first.
aggregate_health_any_first(checks) ==
    LET all_healthy == \A name \in DOMAIN checks : checks[name]
        any_healthy == \E name \in DOMAIN checks : checks[name]
    IN IF ~any_healthy THEN "unhealthy"
       ELSE IF all_healthy THEN "healthy"
       ELSE "degraded"

\* health.aggregate_health: the overall status. checks maps the name of a
\* component to the field healthy of its result.
aggregate_health(checks) ==
    LET all_healthy == \A name \in DOMAIN checks : checks[name]
        any_healthy == \E name \in DOMAIN checks : checks[name]
    IN IF all_healthy THEN "healthy"
       ELSE IF any_healthy THEN "degraded"
       ELSE "unhealthy"

NoHealth ==
    [endpoint |-> "none", checks |-> EmptyChecks, status |-> "",
     status_code |-> 0]

\* A dependency comes up, goes down or starts to answer badly
DependencyChange ==
    /\ UNCHANGED notHealth
    /\ \E name \in Dependencies :
         \E answer \in DepAnswers(name) :
           /\ answer # deps[name]
           /\ deps' = [deps EXCEPT ![name] = answer]
    /\ UNCHANGED health

\* GET /health
health_check ==
    /\ UNCHANGED notHealth
    /\ LET checks == [name \in {"redis", "kafka", "database"}
                        |-> check_health(name)]
           overall_status == aggregate_health(checks)
       IN health' = [endpoint |-> "/health", checks |-> checks,
                     status |-> overall_status,
                     status_code |-> IF overall_status = "healthy"
                                     THEN 200 ELSE 503]
    /\ UNCHANGED deps

\* GET /health/live
liveness_probe ==
    /\ UNCHANGED notHealth
    /\ health' = [endpoint |-> "/health/live", checks |-> EmptyChecks,
                  status |-> "alive", status_code |-> 200]
    /\ UNCHANGED deps

\* GET /health/ready
readiness_probe ==
    /\ UNCHANGED notHealth
    /\ LET checks == [name \in {"redis", "kafka"} |-> check_health(name)]
           overall_status == aggregate_health(checks)
       IN health' = [endpoint |-> "/health/ready", checks |-> checks,
                     status |-> overall_status,
                     status_code |-> IF overall_status = "healthy"
                                     THEN 200 ELSE 503]
    /\ UNCHANGED deps

\* aggregate_health called on a dict of its caller's choice, the empty one
\* included
AggregateCall ==
    /\ UNCHANGED notHealth
    /\ \E names \in SUBSET Dependencies :
         \E checks \in [names -> BOOLEAN] :
           health' = [endpoint |-> "aggregate_health", checks |-> checks,
                      status |-> aggregate_health(checks),
                      status_code |-> 0]
    /\ UNCHANGED deps

InitHealth ==
    /\ deps = [name \in Dependencies |-> "ok"]
    /\ health = NoHealth

(***************************************************************************)
(* listen_on_pubsub: the resources of one stream                           *)
(***************************************************************************)

\* What ends `async for message in p.listen()` or `await p.subscribe(...)`:
\* the builtin ConnectionError or TimeoutError ("network"), any other
\* Exception ("other"); "none" is the normal end of the message stream
ListenExceptions == {"network", "other"}

NoListen ==
    [pc |-> "idle", subscribed |-> FALSE, pubsub_open |-> FALSE,
     conn_open |-> FALSE, exc |-> "none", outcome |-> "none", yielded |-> 0,
     cleanup_raised |-> FALSE, calls |-> 0]

\* listen_on_pubsub with the finally clause left out for an exception that
\* is re-raised
after_except_no_finally(exc) ==
    IF exc = "other"
    THEN [pc |-> "done", outcome |-> "raised"]
    ELSE [pc |-> "finally", outcome |-> "ended"]

\* The except clauses of listen_on_pubsub: (ConnectionError, TimeoutError)
\* is logged and swallowed, Exception is logged and re-raised; the finally
\* clause runs next in either case, as it does when the try block ends.
after_except(exc) ==
    [pc |-> "finally",
     outcome |-> IF exc = "other" THEN "raised" ELSE "ended"]

\* async_redis = create_async_redis_connection(); p = async_redis.pubsub(...)
ListenCall ==
    /\ UNCHANGED notListen
    /\ lsn.pc \in {"idle", "done"}
    /\ lsn.calls < MaxListenCalls
    /\ lsn' = [NoListen EXCEPT !.pc = "subscribe", !.pubsub_open = TRUE,
                               !.conn_open = TRUE, !.calls = lsn.calls + 1]

\* await p.subscribe(API_REDIS_STATE_UPDATE_CHANNEL), which returns or raises
ListenSubscribe ==
    /\ UNCHANGED notListen
    /\ lsn.pc = "subscribe"
    /\ \/ lsn' = [lsn EXCEPT !.pc = "listen", !.subscribed = TRUE]
       \/ \E e \in ListenExceptions :
            lsn' = [lsn EXCEPT !.pc = after_except(e).pc, !.exc = e,
                               !.outcome = after_except(e).outcome]

\* One turn of `async for message in p.listen()`: the message is parsed and
\* yielded, or json.loads, fromisoformat or PersistedGlobalState(**data_dict)
\* raises
ListenMessage ==
    /\ UNCHANGED notListen
    /\ lsn.pc = "listen"
    /\ \/ /\ lsn.yielded < MaxYielded
          /\ lsn' = [lsn EXCEPT !.yielded = lsn.yielded + 1]
       \/ lsn' = [lsn EXCEPT !.pc = after_except("other").pc,
                             !.exc = "other",
                             !.outcome = after_except("other").outcome]

\* p.listen() ends: the try block is left without an exception
ListenEnd ==
    /\ UNCHANGED notListen
    /\ lsn.pc = "listen"
    /\ lsn' = [lsn EXCEPT !.pc = "finally", !.outcome = "ended"]

\* The consumer closes the generator while it is suspended at the yield
\* (stream_state leaves its loop): GeneratorExit is no Exception, so no
\* except clause applies and the finally clause runs
ListenClosed ==
    /\ UNCHANGED notListen
    /\ lsn.pc = "listen"
    /\ lsn.yielded > 0
    /\ lsn' = [lsn EXCEPT !.pc = "finally", !.exc = "closed",
                          !.outcome = "closed"]

\* p.listen() raises
ListenError ==
    /\ UNCHANGED notListen
    /\ lsn.pc = "listen"
    /\ \E e \in ListenExceptions :
         lsn' = [lsn EXCEPT !.pc = after_except(e).pc, !.exc = e,
                            !.outcome = after_except(e).outcome]

\* finally: await p.unsubscribe(API_REDIS_STATE_UPDATE_CHANNEL). The call
\* writes to the connection of the handle; an exception of it leaves the
\* finally clause and is what the caller sees.
ListenUnsubscribe ==
    /\ UNCHANGED notListen
    /\ lsn.pc = "finally"
    /\ \/ lsn' = [lsn EXCEPT !.pc = "close_pubsub", !.subscribed = FALSE]
       \/ lsn' = [lsn EXCEPT !.pc = "done", !.outcome = "raised",
                             !.cleanup_raised = TRUE]

\* finally: await p.close()
ListenClosePubsub ==
    /\ UNCHANGED notListen
    /\ lsn.pc = "close_pubsub"
    /\ \/ lsn' = [lsn EXCEPT !.pc = "close_conn", !.pubsub_open = FALSE]
       \/ lsn' = [lsn EXCEPT !.pc = "done", !.outcome = "raised",
                             !.cleanup_raised = TRUE]

\* finally: await async_redis.close(); then the generator ends, or the
\* exception that the except clause has re-raised goes on to the caller
ListenCloseConn ==
    /\ UNCHANGED notListen
    /\ lsn.pc = "close_conn"
    /\ \/ lsn' = [lsn EXCEPT !.pc = "done", !.conn_open = FALSE]
       \/ lsn' = [lsn EXCEPT !.pc = "done", !.outcome = "raised",
                             !.cleanup_raised = TRUE]

InitListen == lsn = NoListen

(***************************************************************************)
(* apply_batch on a list of events in any order                            *)
(***************************************************************************)

\* The timestamps of the events of the log
BatchTimestamps == {10, 20}

\* The lists of events handed to apply_batch: the events of some offsets
\* above 0, each once, in any order
BatchLists ==
    UNION {{q \in [1..n -> 1..(MaxBatchLog - 1)] :
              \A i, j \in 1..n : i # j => q[i] # q[j]} :
           n \in 1..(MaxBatchLog - 1)}

\* One call of updater.apply_batch, on the state and the list in hand,
\* under the rules that main() has loaded
BatchCall ==
    /\ UNCHANGED notReducer
    /\ new_state = NoState
    /\ new_state' = apply_batch(state, msgs, get_latest_rules.ruleset,
                                get_latest_rules.hash)
    /\ UNCHANGED <<log, committed, rows, published, rpc, position, state,
                   msgs, backoff_attempt>>

\* The log holds MaxBatchLog events; the state is the initial state or the
\* state that has folded offset 0; the list is any of BatchLists.
InitBatch ==
    /\ log \in [1..MaxBatchLog ->
                  [timestamp_ms : BatchTimestamps, request_id : {1},
                   parses : {TRUE}]]
    /\ committed = 0
    /\ rows = <<>>
    /\ published = {}
    /\ rpc = "fold"
    /\ position = MaxBatchLog
    /\ state \in {get_initial_state(get_latest_rules.hash),
                   apply_event(get_initial_state(get_latest_rules.hash),
                               PressEvent(0), get_latest_rules.ruleset,
                               get_latest_rules.hash)}
    /\ new_state = NoState
    /\ msgs \in BatchLists
    /\ backoff_attempt = 0
    /\ sleeps = <<>>

Init ==
    /\ InitReducer /\ InitPow /\ InitRl /\ InitPress /\ InitFan /\ InitWire
    /\ InitSweeper /\ InitDup /\ InitHealth /\ InitListen

NextReducer ==
    \/ LogAppend
    \/ ReducerPoll
    \/ ReducerFold
    \/ ReducerPersist
    \/ ReducerPublish
    \/ ReducerCommit
    \/ ReducerExcept
    \/ ReducerCrash
    \/ ReducerStart

SpecReducer == Init /\ [][NextReducer]_vars

\* The reducer main loop of one process that is never killed: it runs until
\* it re-raises an error.
NextReducerLoop ==
    \/ LogAppendUpTo(MaxLoopLog)
    \/ ReducerPoll
    \/ ReducerFold
    \/ ReducerPersist
    \/ ReducerPublish
    \/ ReducerCommit
    \/ ReducerExcept

SpecReducerLoop == Init /\ [][NextReducerLoop]_vars

\* The reducer, killed between the persist and the commit of its first
\* batch and started again by its supervisor; no other fault.
NextRestart ==
    \/ PressAppend
    \/ ReducerPoll
    \/ ReducerFold
    \/ ReducerPersistOk(MaxRows)
    \/ ReducerPublish
    \/ ReducerCommitOk
    \/ ReducerCrashBeforeCommit
    \/ ReducerStart

\* The loop of main() keeps running and the supervisor restarts a dead
\* process; ingress and the kill are under no obligation.
FairRestart ==
    /\ WF_vars(ReducerPoll)
    /\ WF_vars(ReducerFold)
    /\ WF_vars(ReducerPersistOk(MaxRows))
    /\ WF_vars(ReducerPublish)
    /\ WF_vars(ReducerCommitOk)
    /\ WF_vars(ReducerStart)

SpecRestartLive == Init /\ [][NextRestart]_vars /\ FairRestart

\* Concurrent request tasks inside verify_solution
NextPow ==
    \/ PowIssue
    \/ PowTick
    \/ \E t \in Tasks : VerifyCheck(t)
    \/ \E t \in Tasks : VerifyMark(t)

SpecPow == Init /\ [][NextPow]_vars

\* verify_solution called by one request at a time
NextVerify ==
    \/ PowIssue
    \/ PowTick
    \/ VerifyCall
    \/ VerifyReturn

SpecVerify == Init /\ [][NextVerify]_vars

\* Concurrent request tasks inside check_rate_limit, one IP, one tier
NextRl ==
    \/ RlTick
    \/ \E t \in Tasks : RlCheck(t)
    \/ \E t \in Tasks : RlAdd(t)

SpecRl == Init /\ [][NextRl]_vars

\* One client using one IP and one tier sequentially
NextRlSeq == RlCall

SpecRlSeq == Init /\ [][NextRlSeq]_vars

\* One client pressing, the broker, the blocklist and the clock
NextPress ==
    \/ PowIssue
    \/ PressTick
    \/ block_ip
    \/ unblock_ip
    \/ press_button
    \/ BrokerAck
    \/ BrokerFail
    \/ flush_returns

SpecPress == Init /\ [][NextPress]_vars

\* One client pressing and pressing again, at once or when the lifetime of
\* a challenge has passed
NextResubmit ==
    \/ PowIssue
    \/ PressExpire
    \/ press_button
    \/ BrokerAck
    \/ BrokerFail
    \/ flush_returns

SpecResubmit == Init /\ [][NextResubmit]_vars

\* The reducer and one subscriber of the stream
NextFanout ==
    \/ LogAppend
    \/ ReducerPoll
    \/ ReducerFold
    \/ ReducerPersist
    \/ ReducerPublish
    \/ ReducerCommit
    \/ ReducerExcept
    \/ ReducerCrash
    \/ ReducerStart
    \/ StreamOpen
    \/ ClientDisconnect
    \/ FanoutReceive
    \/ FanoutConnectionLost

SpecFanout == Init /\ [][NextFanout]_vars

\* The reducer of well-formed presses, its store and its channel, and one
\* subscriber that reads what is published
NextNotify ==
    \/ PressAppend
    \/ ReducerPoll
    \/ ReducerFold
    \/ ReducerPersist
    \/ ReducerPublish
    \/ ReducerCommit
    \/ ReducerExcept
    \/ StreamOpen
    \/ FanoutReceive

SpecNotify == Init /\ [][NextNotify]_vars

\* The reducer loop and the listener are scheduled for as long as they can
\* take a step; the ingress, the client, crashes and connection losses are
\* under no obligation.
FairFanout ==
    /\ WF_vars(ReducerPoll)
    /\ WF_vars(ReducerFold)
    /\ WF_vars(ReducerPersist)
    /\ WF_vars(ReducerPublish)
    /\ WF_vars(ReducerCommit)
    /\ WF_vars(FanoutReceive)

SpecFanoutLive == Init /\ [][NextFanout]_vars /\ FairFanout

(***************************************************************************)
(* Claims about the reducer                                                *)
(***************************************************************************)

\* The largest last_applied_offset among the persisted rows (-1: no row)
MaxPersistedOffset ==
    IF rows = <<>> THEN -1
    ELSE CHOOSE m \in {rows[i].last_applied_offset : i \in 1..Len(rows)} :
           \A i \in 1..Len(rows) : rows[i].last_applied_offset <= m

\* C1: in every reachable state, crashes included, every offset the committed
\* offset covers is at most the largest last_applied_offset of the persisted
\* rows: the commit never runs ahead of the persisted state.
C1_CommitAfterPersist ==
    \A o \in 0..(committed - 1) : o <= MaxPersistedOffset

\* C1 witness: a batch was persisted and committed, a later batch was
\* persisted, and the process went down before that batch was committed.
C1_Witness ==
    /\ committed > 0
    /\ rows # <<>>
    /\ LatestRow.last_applied_offset >= committed
    /\ rpc = "down"

\* C2: ordered by id, the rows have strictly increasing ids and
\* non-decreasing last_applied_offset.
C2_RowsMonotone ==
    \A i, j \in 1..Len(rows) :
        i < j => /\ rows[i].id < rows[j].id
                 /\ rows[i].last_applied_offset <= rows[j].last_applied_offset

\* C3: every event the committed offset covers has been folded into the
\* lineage of the row with the highest id.
C3_NoEventSkipped ==
    \A o \in 0..(committed - 1) :
        /\ rows # <<>>
        /\ o \in LatestRow.lineage

(***************************************************************************)
(* Claims about the PoW oracle                                             *)
(***************************************************************************)

\* C4: while no used-set call has raised, no challenge is accepted more than
\* once, whatever the interleaving of the request tasks.
C4_SingleAcceptance ==
    ~pow_outage => \A id \in ChallengeIds : accepted[id] <= 1

\* The four echoed fields are those of a challenge the server issued.
IssuedAsSent(solution) ==
    \E i \in 1..Len(issued) :
        /\ issued[i].challenge_id = solution.challenge_id
        /\ issued[i].difficulty = solution.difficulty
        /\ issued[i].expires_at = solution.expires_at
        /\ issued[i].signature = solution.signature

\* The error of the first failing check, in the order signature, expiry,
\* used-set, hash difficulty ("": none fails), for a completed call.
FirstFailingCheck(v) ==
    IF ~IssuedAsSent(v.solution) THEN "Invalid challenge signature"
    ELSE IF v.now > v.solution.expires_at THEN "Challenge expired"
    ELSE IF v.key_present /\ ~v.lookup_raised THEN "Challenge already used"
    ELSE IF _compute_solution_hash(v.solution.challenge_id, v.solution.nonce)
              < v.solution.difficulty
         THEN "Invalid proof of work"
    ELSE ""

\* C9: a completed verify_solution call reports the error of the first
\* failing check in the order signature, expiry, used-set, hash (so a
\* solution whose id, difficulty, expiry or signature is not as issued gets
\* "Invalid challenge signature"), and it records the challenge as used only
\* when no check fails.
C9_CheckOrder ==
    last_verify.error # "none" =>
        /\ last_verify.error = FirstFailingCheck(last_verify)
        /\ last_verify.marked => FirstFailingCheck(last_verify) = ""

\* C9 witness: a call for an untampered challenge that is expired, already
\* used and carries a nonce with too few zeros; the call reports the expiry.
C9_Witness ==
    /\ last_verify.error = "Challenge expired"
    /\ IssuedAsSent(last_verify.solution)
    /\ last_verify.key_present
    /\ ~last_verify.lookup_raised
    /\ _compute_solution_hash(last_verify.solution.challenge_id,
                              last_verify.solution.nonce)
         < last_verify.solution.difficulty


\* The admitted requests of rl_log whose timestamps lie in the sliding
\* window that ends at time `at` (the timestamps above at - window, up to at)
AdmittedInWindow(at) ==
    {j \in DOMAIN rl_log :
        /\ rl_log[j].allowed
        /\ rl_log[j].now <= at
        /\ rl_log[j].now > at - WindowTicks(PRESS_BURST_LIMIT)}

\* C5: for one IP and one tier, while the store answers, the admitted
\* requests whose timestamps lie inside any sliding window never number
\* more than the tier's limit, whatever the interleaving of the checks.
C5_WindowNeverOverLimit ==
    ~rl_outage =>
        \A k \in DOMAIN rl_log :
            Cardinality(AdmittedInWindow(rl_log[k].now))
                <= PRESS_BURST_LIMIT.requests

\* C8: one IP and one tier used sequentially, the store answering: a request
\* that finds `limit` admitted requests inside its window is rejected with
\* Retry-After >= 1, and a request made window + 1 + 1 seconds after every
\* earlier one is admitted.
C8_SequentialLimit ==
    ~rl_outage =>
        \A k \in DOMAIN rl_log :
            LET e == rl_log[k]
                before == {j \in 1..(k - 1) :
                              /\ rl_log[j].allowed
                              /\ rl_log[j].now > e.now - WindowTicks(PRESS_BURST_LIMIT)}
            IN /\ Cardinality(before) >= PRESS_BURST_LIMIT.requests
                    => ~e.allowed /\ e.retry_after >= 1
               /\ (\A j \in 1..(k - 1) :
                      rl_log[j].now
                        + (PRESS_BURST_LIMIT.window_seconds + 1 + 1) * TicksPerSecond
                            <= e.now)
                    => e.allowed

\* `limit` requests admitted, the next one rejected inside the window, and
\* the request window + 1 + 1 seconds after it admitted
C8_Witness ==
    /\ ~rl_outage
    /\ \E k \in DOMAIN rl_log :
          /\ ~rl_log[k].allowed
          /\ rl_log[k].retry_after >= 1
          /\ Cardinality({j \in 1..(k - 1) : rl_log[j].allowed})
                = PRESS_BURST_LIMIT.requests
          /\ k + 1 \in DOMAIN rl_log
          /\ rl_log[k + 1].allowed
          /\ rl_log[k + 1].now =
                rl_log[k].now
                  + (PRESS_BURST_LIMIT.window_seconds + 1 + 1) * TicksPerSecond


\* C6: a press is answered 202 only when an event with the returned
\* request_id and timestamp_ms is in the log.
C6_AcceptedIsInLog ==
    last_press.status = 202 =>
        \E i \in DOMAIN log :
            /\ log[i].request_id = last_press.request_id
            /\ log[i].timestamp_ms = last_press.timestamp_ms

\* C7: every notification of the reducer that the listener has read gave
\* exactly one state_update event carrying the row of that id, and no
\* notification ended the stream with an error.
C7_NotificationYieldsUpdate ==
    /\ \A i \in consumed :
          Cardinality({k \in DOMAIN stream :
                          /\ stream[k].event = "state_update"
                          /\ stream[k].id = i}) = 1
    /\ \A k \in DOMAIN stream : stream[k].event # "error"

\* The requests whose message was produced: it is queued or in the log
ProducedIds ==
    {m.request_id : m \in pqueue} \cup {log[i].request_id : i \in DOMAIN log}

\* C10: every event in the log comes from a request that passed the
\* blocklist check, both press tiers and the PoW verification, and a
\* request answered 400, 403 or 429 has produced nothing.
C10_AppendOnlyAfterChecks ==
    /\ \A i \in DOMAIN log : log[i].request_id \notin sent_unchecked
    /\ last_press.status \in {400, 403, 429}
          => last_press.request_id \notin ProducedIds

\* A request is turned away by the rate limit after an earlier request of
\* the same client has put its event in the log
C10_Witness ==
    /\ last_press.status = 429
    /\ last_press.passed = {"blocklist", "burst"}
    /\ log # <<>>


\* One message, of either kind, is on the wire
InitSpecWire ==
    /\ InitReducer /\ InitPow /\ InitRl /\ InitPress /\ InitFan
    /\ InitSweeper /\ InitDup /\ InitHealth /\ InitListen
    /\ wire \in [kind : {"log"}, data : LogObjects]
                \cup [kind : {"channel"}, data : ChannelObjects]
    /\ handled = NotHandled

InitSpecSweeper ==
    /\ InitSwept /\ InitPow /\ InitRl /\ InitPress /\ InitFan /\ InitWire
    /\ InitDup /\ InitHealth /\ InitListen
    /\ now_ms = 60
    /\ sweeps = 0

\* The state that apply_event starts from: the initial state, or one that
\* main() has loaded
InitSpecFold ==
    /\ InitReducer \/ InitSwept
    /\ InitPow /\ InitRl /\ InitPress /\ InitFan /\ InitWire /\ InitSweeper
    /\ InitDup /\ InitHealth /\ InitListen

\* Two reducer instances on one log, one store and one consumer group
InitSpecDup ==
    /\ InitDuplicates
    /\ InitPow /\ InitRl /\ InitPress /\ InitFan /\ InitWire /\ InitSweeper
    /\ InitHealth /\ InitListen

NextDup ==
    \E r \in Reducers :
      \/ DupPoll(r)
      \/ DupFold(r)
      \/ DupPersist(r)
      \/ DupPublish(r)
      \/ DupCommit(r)

SpecDup == InitSpecDup /\ [][NextDup]_vars

\* apply_batch, called once on each list
InitSpecBatch ==
    /\ InitBatch
    /\ InitPow /\ InitRl /\ InitPress /\ InitFan /\ InitWire /\ InitSweeper
    /\ InitDup /\ InitHealth /\ InitListen

NextBatch == BatchCall

SpecBatch == InitSpecBatch /\ [][NextBatch]_vars

\* The health endpoints, called at any moment while the dependencies change
NextHealth ==
    \/ DependencyChange
    \/ health_check
    \/ liveness_probe
    \/ readiness_probe
    \/ AggregateCall

SpecHealth == Init /\ [][NextHealth]_vars

\* listen_on_pubsub, called again after it has ended
NextListen ==
    \/ ListenCall
    \/ ListenSubscribe
    \/ ListenMessage
    \/ ListenEnd
    \/ ListenError
    \/ ListenClosed
    \/ ListenUnsubscribe
    \/ ListenClosePubsub
    \/ ListenCloseConn

SpecListen == Init /\ [][NextListen]_vars

NextFold == FoldEvent

SpecFold == InitSpecFold /\ [][NextFold]_vars

NextSweeper ==
    \/ SweeperTick
    \/ ReducerPoll
    \/ ReducerFold
    \/ SweeperPersist
    \/ ReducerPublish
    \/ ReducerCommitOk

SpecSweeper == InitSpecSweeper /\ [][NextSweeper]_vars

NextSweeperLive ==
    \/ SweeperLoop
    \/ ReducerPoll
    \/ ReducerFold
    \/ SweeperPersist
    \/ ReducerPublish
    \/ ReducerCommitOk

\* The loop of the sweeper and the loop of the reducer keep running
FairSweeper ==
    /\ WF_vars(SweeperLoop)
    /\ WF_vars(ReducerPoll)
    /\ WF_vars(ReducerFold)
    /\ WF_vars(SweeperPersist)
    /\ WF_vars(ReducerPublish)
    /\ WF_vars(ReducerCommitOk)

SpecSweeperLive ==
    InitSpecSweeper /\ [][NextSweeperLive]_vars /\ FairSweeper

NextWire ==
    \/ ReducerParse
    \/ ListenerParse

SpecWire == InitSpecWire /\ [][NextWire]_vars

-----------------------------------------------------------------------------
\* C11: a press request from an IP that is in the blocklist, whose blocklist
\* lookup is answered by the store, is answered 403, never 429, and leaves
\* the sorted sets of both tiers (members and expiry) as they were.
C11_BlockedBeforeTiers ==
    [][(press_count' = press_count + 1 /\ blocklist
          /\ last_press'.fault # "blocklist")
        => /\ last_press'.status = 403
           /\ zset' = zset
           /\ zset_expire' = zset_expire]_vars

\* C11 as stated, without the condition on the lookup: every request from
\* an IP that is in the blocklist is answered 403 and records nothing.
C11_BlockedAlways ==
    [][(press_count' = press_count + 1 /\ blocklist)
        => /\ last_press'.status = 403
           /\ zset' = zset
           /\ zset_expire' = zset_expire]_vars

\* A blocked IP was answered 403 while its earlier requests are still
\* inside the burst window.
C11_Witness ==
    /\ last_press.status = 403
    /\ last_press.request_id > 1
    /\ ZsetLive(PRESS_BURST_LIMIT.key_prefix) # {}

\* C12: the anti-abuse stores are fail-open. A press request whose blocklist
\* lookup raised passed the blocklist; one whose tier pipeline raised passed
\* that tier; one whose used-challenge lookup raised was not answered
\* "Challenge already used"; one whose used-challenge marking raised was
\* verified and went on to the producer.
C12_FailOpen ==
    /\ last_press.fault = "blocklist" => "blocklist" \in last_press.passed
    /\ last_press.fault \in {"burst_pipe", "burst_pipe2"}
          => "burst" \in last_press.passed
    /\ last_press.fault \in {"sustained_pipe", "sustained_pipe2"}
          => "sustained" \in last_press.passed
    /\ last_press.fault = "used" => ~last_press.used_rejected
    /\ last_press.fault = "mark"
          => /\ "pow" \in last_press.passed
             /\ last_press.status \in {0, 202, 503}

\* The used-challenge lookup raised for a challenge that was already used,
\* and the press was accepted and acknowledged.
C12_Witness ==
    /\ last_press.fault = "used"
    /\ last_press.status = 202

\* The fields of a message that its consumer knows
KnownFields(kind) ==
    IF kind = "log" THEN PressEventFields
    ELSE PersistedGlobalStateFields \cup {"type"}

\* The outcome of the consumer of the kind on the object
Consume(kind, data) ==
    IF kind = "log" THEN parse_press_event(data)
    ELSE parse_state_update(data)

\* C13: a log message or a channel message that carries unknown extra
\* fields is handled by its consumer (the reducer, the fan-out listener)
\* exactly as the same message without the extra fields.
C13_ExtraFieldsIgnored ==
    handled.done
      => handled = Consume(wire.kind, Strip(wire.data, KnownFields(wire.kind)))

\* C14: once the client of a stream has gone away, the listener of that
\* stream eventually tears its subscription down, also when no further
\* notification is published.
C14_DisconnectTornDown ==
    (disconnected /\ sub = "listening") ~> (sub = "ended")

(***************************************************************************)
(* Claims about the sweeper and the fold                                   *)
(***************************************************************************)

\* The cooldown base of the phase of a state, under the ruleset that the
\* state names
CooldownBase(s) ==
    LET rules == get_rules_by_hash(s.ruleshash)
    IN IF s.phase = Phases.WARM THEN rules.cooldown_warm_ms
       ELSE rules.cooldown_chaos_ms

C16_OneEventPerBucket ==
    \A n \in 1..Len(rows) :
      \A i, j \in rows[n].lineage :
        (i # j /\ IsSynthetic(log[i + 1]) /\ IsSynthetic(log[j + 1]))
          => log[i + 1].request_id # log[j + 1].request_id

ThresholdPhase(entropy, rules) ==
    CASE entropy < rules.calm_threshold -> Phases.CALM
      [] entropy >= rules.calm_threshold /\ entropy < rules.hot_threshold
           -> Phases.WARM
      [] entropy >= rules.hot_threshold /\ entropy < rules.chaos_threshold
           -> Phases.HOT
      [] entropy >= rules.chaos_threshold -> Phases.CHAOS

\* C18: every row has an entropy within [0, 1] and the phase that the
\* thresholds of the ruleset named by its ruleshash give to that entropy.
C18_PhaseFromEntropy ==
    \A n \in 1..Len(rows) :
      /\ rows[n].entropy >= 0
      /\ rows[n].entropy <= EntropyScale
      /\ rows[n].phase =
           ThresholdPhase(rows[n].entropy,
                          get_rules_by_hash(rows[n].ruleshash))

\* The reducer has persisted a row whose entropy is exactly the calm
\* threshold of its ruleset, in phase WARM.
C18_Witness ==
    /\ Len(rows) > 1
    /\ LatestRow.entropy = get_rules_by_hash(LatestRow.ruleshash).calm_threshold
    /\ LatestRow.phase = Phases.WARM

\* C19: a fold never yields an updated_at_ms below that of the state it
\* started from.
C19_UpdatedAtMonotone ==
    [][state'.updated_at_ms >= state.updated_at_ms]_vars

\* The reveal duration of a phase under the rules
RevealDuration(phase, rules) ==
    CASE phase = Phases.CALM -> rules.reveal_calm_ms
      [] phase = Phases.WARM -> rules.reveal_warm_ms
      [] OTHER -> rules.reveal_chaos_ms

\* C20: a fold yields the larger of the previous reveal_until_ms and the
\* timestamp of the event plus the reveal duration of the new phase, so
\* reveal_until_ms never decreases; without a previous value the function
\* yields the candidate.
C20_RevealMonotone ==
    [][/\ state'.reveal_until_ms >= state.reveal_until_ms
       /\ state'.reveal_until_ms =
            Max(state.reveal_until_ms,
                state'.updated_at_ms
                  + RevealDuration(state'.phase, get_latest_rules.ruleset))
       /\ \A ts \in FoldTimestamps, ph \in {0, 1, 2, 3} :
            compute_reveal_until_ms(None, ts, ph, get_latest_rules.ruleset)
              = ts + RevealDuration(ph, get_latest_rules.ruleset)]_vars

\* An event with an earlier timestamp was folded and the reveal window of
\* the state before it was kept.
C20_Witness ==
    /\ state.counter >= 2
    /\ state.reveal_until_ms >
         state.updated_at_ms
           + RevealDuration(state.phase, get_latest_rules.ruleset)

(***************************************************************************)
(* Claims about the counter, the rows and the reducer loop                 *)
(***************************************************************************)

\* The user presses among the events folded into a state: the events of its
\* lineage that the sweeper did not send
PressesFolded(s) ==
    Cardinality({o \in s.lineage : ~IsSynthetic(log[o + 1])})

\* C21: with one reducer and no crash, the counter of the latest row is the
\* number of user presses folded into it; an event of the sweeper is not a
\* press and does not count.
C21_CounterIsPresses ==
    rows # <<>> => LatestRow.counter = PressesFolded(LatestRow)

\* C22: a row is written only by the persist step of a batch, one row for
\* the whole batch, appended after the rows that exist, which stay as they
\* are; the steps of a batch follow one another (poll of a non-empty batch,
\* fold, persist, publish, commit), so a batch whose step completes has
\* written exactly one row; a poll that returns nothing writes no row,
\* publishes nothing and commits nothing.
C22_OneRowPerBatch ==
    /\ [][rows' # rows
            => /\ rpc = "persist" /\ rpc' = "publish"
               /\ Len(rows') = Len(rows) + 1
               /\ SubSeq(rows', 1, Len(rows)) = rows]_vars
    /\ [][(rpc' = "fold" /\ rpc # "fold")
            => (rpc = "poll" /\ msgs' # <<>>)]_vars
    /\ [][(rpc' = "persist" /\ rpc # "persist") => rpc = "fold"]_vars
    /\ [][(rpc' = "publish" /\ rpc # "publish")
            => (rpc = "persist" /\ Len(rows') = Len(rows) + 1)]_vars
    /\ [][(rpc' = "commit" /\ rpc # "commit") => rpc = "publish"]_vars
    /\ [][(committed' # committed \/ state' # state) /\ rpc' # "down"
            => (rpc = "commit" \/ rpc = "down")]_vars
    /\ [][(rpc = "poll" /\ rpc' = "poll")
            => UNCHANGED <<rows, published, committed, state>>]_vars

\* The step of a batch of two events has completed and has written one row.
C22_Witness ==
    /\ rpc = "poll"
    /\ Len(rows) = 1
    /\ rows[1].lineage = {0, 1}
    /\ committed = 2
    /\ state.counter = 2

\* C23: a reducer that has met backoff_max_attempts errors in its batch
\* steps is no longer running: it has re-raised the error and is down.
\* (backoff_attempt counts the errors after which main() slept and went on.)
C23_DownAfterMaxAttempts ==
    backoff_attempt >= backoff_max_attempts => rpc = "down"

\* C24: with two reducer instances on the same log, the rows, in the order
\* of their ids, have strictly increasing ids and a last_applied_offset that
\* never decreases from one row to the next.
C24_DuplicateMonotone ==
    \A n \in 1..(Len(rows) - 1) :
      /\ rows[n].id < rows[n + 1].id
      /\ rows[n].last_applied_offset <= rows[n + 1].last_applied_offset

(***************************************************************************)
(* Claims about the health endpoints                                       *)
(***************************************************************************)

\* C25: the aggregate of a set of checks is "healthy" exactly when every
\* check is healthy (so also for no check at all), "unhealthy" exactly when
\* there is a check and none is healthy, and "degraded" in the remaining
\* cases; /health and /health/ready answer 200 exactly when the aggregate of
\* their checks is "healthy" and 503 otherwise; /health/live answers 200
\* and runs no check.
C25_HealthAggregate ==
    LET checks == health.checks
        every == \A name \in DOMAIN checks : checks[name]
        none == \A name \in DOMAIN checks : ~checks[name]
        aggregated == health.endpoint \in {"/health", "/health/ready",
                                           "aggregate_health"}
        probed == health.endpoint \in {"/health", "/health/ready"}
    IN /\ aggregated =>
            /\ health.status = "healthy" <=> every
            /\ health.status = "unhealthy" <=> (DOMAIN checks # {} /\ none)
            /\ health.status = "degraded"
                 <=> ~every /\ ~(DOMAIN checks # {} /\ none)
       /\ probed =>
            /\ health.status_code = 200 <=> health.status = "healthy"
            /\ health.status_code = 503 <=> health.status # "healthy"
            /\ DOMAIN checks = IF health.endpoint = "/health"
                               THEN {"redis", "kafka", "database"}
                               ELSE {"redis", "kafka"}
       /\ health.endpoint = "/health/live" =>
            /\ health.status_code = 200
            /\ DOMAIN checks = {}

\* /health has answered 503 with the status "degraded": the database raised
\* while the two other dependencies answered well.
C25_Witness ==
    /\ health.endpoint = "/health"
    /\ health.status = "degraded"
    /\ health.status_code = 503
    /\ health.checks = [name \in Dependencies |-> name # "database"]
    /\ deps["database"] = "raises"

(***************************************************************************)
(* Claims about the rules, the notification and the back-off               *)
(***************************************************************************)

\* C26: the reducer folds under the ruleset named by the latest persisted
\* row, so every row carries the ruleshash of the row before it, also
\* when a newer ruleset has been written since that row.
C26_RulesPinned ==
    \A n \in 1..(Len(rows) - 1) : rows[n + 1].ruleshash = rows[n].ruleshash

\* The publish of the batch in hand has failed: the reducer is past the
\* publish and no notification carries the id of the row it has written.
PublishFailed == rpc = "commit" /\ LatestRow.id \notin published

\* C27: a publish that fails does not end the batch step. The step after
\* the publish is the commit, with the rows, the new state in hand and the
\* attempt counter as they were; and the commit after a failed publish
\* commits the offsets of the batch, makes the new state the in-memory
\* state and leaves the rows and the attempt counter alone.
C27_PublishFailureSwallowed ==
    /\ [][(rpc = "publish" /\ rpc' \notin {"publish", "down"})
            => /\ rpc' = "commit"
               /\ UNCHANGED <<rows, new_state, position, state, committed,
                              backoff_attempt>>]_vars
    /\ [][(PublishFailed /\ rpc' = "poll")
            => /\ committed' = position
               /\ committed' = LatestRow.last_applied_offset + 1
               /\ state' = new_state
               /\ state'.counter = LatestRow.counter
               /\ UNCHANGED <<rows, backoff_attempt>>]_vars

\* A batch step has completed although its publish failed: the row is
\* there, unpublished, its offsets are committed, the in-memory state is
\* that of the row and no attempt was counted.
C27_Witness ==
    /\ rpc = "poll"
    /\ Len(rows) = 1
    /\ published = {}
    /\ committed = rows[1].last_applied_offset + 1
    /\ state.lineage = rows[1].lineage
    /\ state.counter = rows[1].counter
    /\ backoff_attempt = 0

\* The delay that the claim gives for the error number n of a process
ClaimedDelay(n) ==
    Min(backoff_base_seconds * (2 ^ n), max_backoff_seconds)

\* The handler of a batch-step error has run
ErrorHandled == rpc = "except" /\ rpc' # "except"

OffsetsOf(offs) == {offs[i] : i \in 1..Len(offs)}

\* The offsets of a list, each once, in ascending order
Ascending(offs) ==
    CHOOSE q \in [1..Len(offs) -> OffsetsOf(offs)] :
      \A i, j \in 1..Len(offs) : i < j => q[i] < q[j]

\* C29: whatever the order of the list, apply_batch yields what the fold of
\* its events one by one in ascending offset order yields from the given
\* state: the last_applied_offset is the highest offset of the list, the
\* counter has grown by the number of events, and the timestamp is that of
\* the event with the highest offset.
C29_BatchSorted ==
    new_state # NoState =>
      LET highest == CHOOSE o \in OffsetsOf(msgs) :
                       \A other \in OffsetsOf(msgs) : other <= o
      IN /\ new_state = FoldEvents(state, Ascending(msgs),
                                   get_latest_rules.ruleset,
                                   get_latest_rules.hash)
         /\ new_state.last_applied_offset = highest
         /\ new_state.counter = state.counter + Len(msgs)
         /\ new_state.updated_at_ms = log[highest + 1].timestamp_ms
         /\ new_state.lineage = state.lineage \cup OffsetsOf(msgs)

\* apply_batch has folded three events that were listed in descending
\* order of their offsets, whose timestamps differ.
C29_Witness ==
    /\ new_state # NoState
    /\ msgs = <<3, 2, 1>>
    /\ new_state.last_applied_offset = 3
    /\ new_state.counter = state.counter + 3
    /\ log[4].timestamp_ms # log[2].timestamp_ms

\* The in-memory state that a row gives when it is loaded
RowState(row) ==
    [last_applied_offset |-> row.last_applied_offset,
     updated_at_ms |-> row.updated_at_ms, ruleshash |-> row.ruleshash,
     counter |-> row.counter, phase |-> row.phase, entropy |-> row.entropy,
     reveal_until_ms |-> row.reveal_until_ms,
     cooldown_ms |-> row.cooldown_ms, lineage |-> row.lineage]

\* By how much the counter of a state exceeds the number of distinct events
\* folded into it: the events counted more than once
CountedAgain(s) == s.counter - Cardinality(s.lineage)

\* The offsets of the batch in hand at the persist step: the events between
\* the position before the poll and the position after it, as many as the
\* fold has added to the counter
BatchInHand ==
    (position - (new_state.counter - state.counter))..(position - 1)

\* C30: a reducer killed after it has persisted row k and before the commit
\* starts again with row k as its in-memory state and with its consumer at
\* the committed offset; a row written after that has an id above those of
\* the rows before it and a counter that counts once more each event of its
\* batch that the state already held; and the restart leads to a second
\* row, with a higher id, that holds the events of row k and counts events
\* twice.
C30_RestartRefolds ==
    /\ [][(rpc = "down" /\ rpc' = "poll")
            => /\ state' = RowState(LatestRow)
               /\ position' = committed]_vars
    /\ [][rows' # rows
            => /\ \A n \in 1..Len(rows) : rows'[Len(rows')].id > rows[n].id
               /\ CountedAgain(rows'[Len(rows')])
                    = CountedAgain(state)
                        + Cardinality(BatchInHand \cap state.lineage)]_vars
    /\ (rpc = "down")
         ~> (/\ Len(rows) = 2
             /\ rows[2].id > rows[1].id
             /\ rows[1].lineage \subseteq rows[2].lineage
             /\ CountedAgain(rows[2]) > 0)

\* After the restart the two events of row 1 were folded again: row 2 holds
\* the same two events with a counter of 4.
C30_Witness ==
    /\ Len(rows) = 2
    /\ rows[1].counter = 2
    /\ rows[1].lineage = {0, 1}
    /\ rows[2].lineage = {0, 1}
    /\ rows[2].counter = 4
    /\ rpc = "poll"
    /\ committed = 2

(***************************************************************************)
(* C31                                                                     *)
(***************************************************************************)

\* What the caller of listen_on_pubsub sees for each way the try block ends
ListenOutcome(exc) ==
    CASE exc = "none" -> "ended"
      [] exc = "network" -> "ended"
      [] exc = "closed" -> "closed"
      [] exc = "other" -> "raised"

Released == ~lsn.subscribed /\ ~lsn.pubsub_open /\ ~lsn.conn_open

\* C31 as stated: whenever listen_on_pubsub has ended, by the end of the
\* message stream, by a swallowed ConnectionError or TimeoutError or by a
\* re-raised exception, it has unsubscribed and closed the pubsub handle and
\* the connection.
C31_AlwaysReleased == lsn.pc = "done" => Released

\* C31: every way out of the try block of listen_on_pubsub leads through the
\* finally clause, where the unsubscribe is attempted first; once the
\* generator has ended and no call of the clean-up has raised, the channel
\* is unsubscribed, the pubsub handle and the connection are closed, a
\* ConnectionError or TimeoutError has been swallowed and any other exception
\* has reached the caller; nothing is yielded after the try block was left.
C31_ReleasedOnExit ==
    /\ [](lsn.pc = "done" /\ ~lsn.cleanup_raised
            => Released /\ lsn.outcome = ListenOutcome(lsn.exc))
    /\ [][lsn.pc # "done" /\ lsn'.pc = "done"
            => lsn.pc \in {"finally", "close_pubsub", "close_conn"}]_vars
    /\ [][lsn.pc = "finally" /\ lsn'.pc # "finally"
            => ~lsn'.subscribed \/ lsn'.cleanup_raised]_vars
    /\ [][lsn'.yielded > lsn.yielded
            => lsn.pc = "listen" /\ lsn'.pc = "listen"]_vars

\* An exception other than the two network errors, after one update was
\* yielded: re-raised, everything released
C31_Witness ==
    /\ lsn.pc = "done"
    /\ lsn.exc = "other"
    /\ lsn.outcome = "raised"
    /\ lsn.yielded = 1
    /\ ~lsn.cleanup_raised
    /\ Released

(***************************************************************************)
(* C32                                                                     *)
(***************************************************************************)

\* The fields of a GlobalState that the program holds (lineage is history)
StateFields(s) ==
    [last_applied_offset |-> s.last_applied_offset,
     updated_at_ms |-> s.updated_at_ms, ruleshash |-> s.ruleshash,
     counter |-> s.counter, phase |-> s.phase, entropy |-> s.entropy,
     reveal_until_ms |-> s.reveal_until_ms, cooldown_ms |-> s.cooldown_ms]

\* C32: whenever the reducer is about to fold a batch, its in-memory state
\* has the field values of the row with the highest id, or is the genesis
\* state when no row is stored, also after a step whose persist succeeded
\* and whose publish or commit raised.
C32_FoldsFromLatestRow ==
    rpc = "fold"
      => StateFields(state)
           = IF rows = <<>>
             THEN StateFields(get_initial_state(get_latest_rules.hash))
             ELSE StateFields(LatestRow)

(***************************************************************************)
(* C33                                                                     *)
(***************************************************************************)

\* C33: ordered by id, the rows of a single reducer have non-decreasing
\* counters, whatever batches, batch-step errors, crashes and restarts
\* have taken place.
C33_CounterMonotone ==
    \A i, j \in 1..Len(rows) : i < j => rows[i].counter <= rows[j].counter

(***************************************************************************)
(* C34                                                                     *)
(***************************************************************************)

\* C34: while a reducer process lives, backoff_attempt never decreases, a
\* completed batch step leaves it as it is, and it equals the number of
\* batch-step errors the process has survived (each of which slept once),
\* which is at most backoff_max_attempts however many batches have succeeded
\* in between; the error that finds the counter at the limit ends the
\* process.
C34_BackoffNeverReset ==
    /\ [](backoff_attempt = Len(sleeps)
            /\ backoff_attempt <= backoff_max_attempts)
    /\ [][backoff_attempt' >= backoff_attempt]_vars
    /\ [][rpc = "commit" /\ rpc' = "poll"
            => backoff_attempt' = backoff_attempt]_vars
    /\ [][(/\ rpc = "except"
            /\ rpc' # "except"
            /\ backoff_attempt = backoff_max_attempts)
            => rpc' = "down"]_vars

\* Two errors, a batch that succeeded, a third error: the process is alive
\* and the next error ends it
C34_Witness ==
    /\ rpc = "poll"
    /\ backoff_attempt = backoff_max_attempts
    /\ Len(rows) >= 1
    /\ committed = 3
    /\ position = 4

(***************************************************************************)
(* C35                                                                     *)
(***************************************************************************)

\* A call of verify_solution returns in this step
VerifyReturns == last_verify = NoVerify /\ last_verify' # NoVerify

\* The nonce of the solution gives a hash with enough leading zeros
ValidNonce(solution) ==
    _check_hash_difficulty(
        _compute_solution_hash(solution.challenge_id, solution.nonce),
        solution.difficulty)

\* C35: a call of verify_solution that rejects (bad signature, expired,
\* already used, insufficient hash) leaves the used-set as it is; and a call
\* with a valid nonce for an issued challenge that is not expired and whose
\* used marker is absent is accepted, whatever calls were rejected before.
C35_RejectionDoesNotConsume ==
    /\ [][VerifyReturns /\ last_verify'.error # ""
            => used' = used /\ accepted' = accepted]_vars
    /\ [][(/\ VerifyReturns
           /\ IssuedAsSent(last_verify'.solution)
           /\ ValidNonce(last_verify'.solution)
           /\ last_verify'.now <= last_verify'.solution.expires_at
           /\ ~last_verify'.key_present)
            => last_verify'.error = ""]_vars

\* A call has just been rejected for its hash; the challenge is issued, not
\* expired, was never accepted and has no used marker
C35_Witness ==
    /\ last_verify.error = "Invalid proof of work"
    /\ IssuedAsSent(last_verify.solution)
    /\ clock <= last_verify.solution.expires_at
    /\ ~KeyPresent(last_verify.solution.challenge_id)
    /\ accepted[last_verify.solution.challenge_id] = 0

(***************************************************************************)
(* C36                                                                     *)
(***************************************************************************)

\* C36: a call that accepts and whose setex returns leaves the used marker
\* with a positive TTL of expires_at - now + 5, so the marker of a challenge
\* is present at every time at which the challenge is not expired, and no
\* call whose lookup is answered accepts that challenge again.
C36_MarkerOutlivesChallenge ==
    /\ [][VerifyReturns /\ last_verify'.marked
            => LET sol == last_verify'.solution
                   ttl == sol.expires_at - last_verify'.now + USED_TTL_BUFFER
               IN /\ ttl > 0
                  /\ used'[sol.challenge_id] = last_verify'.now + ttl]_vars
    /\ [](\A i \in 1..Len(issued) :
            (used[issued[i].challenge_id] # 0 /\ clock <= issued[i].expires_at)
              => KeyPresent(issued[i].challenge_id))
    /\ [][(/\ VerifyReturns
           /\ used[last_verify'.solution.challenge_id] # 0
           /\ ~last_verify'.lookup_raised)
            => last_verify'.error # ""]_vars

\* The challenge was accepted and marked at time 0; one second before its
\* expiry a second submission of the same solution is answered "already
\* used"
C36_Witness ==
    /\ last_verify.error = "Challenge already used"
    /\ IssuedAsSent(last_verify.solution)
    /\ ValidNonce(last_verify.solution)
    /\ accepted[last_verify.solution.challenge_id] = 1
    /\ last_verify.now > 0
    /\ ~pow_outage

(***************************************************************************)
(* C37                                                                     *)
(***************************************************************************)

\* The latest press passed verify_solution with the marker written and was
\* answered 503 (produce raised, or flush_producer timed out)
AcceptedThen503 ==
    /\ last_press.status = 503
    /\ "pow" \in last_press.passed
    /\ last_press.fault # "mark"

\* The solutions that verify_solution accepts for the challenge of the id:
\* the fields as issued, with a nonce whose hash is sufficient. The solution
\* of a press that passed the PoW check is one of them.
AcceptableSolutions(id) ==
    {sol \in PressSolutions :
        /\ sol.challenge_id = id
        /\ _verify_signature(sol)
        /\ _check_hash_difficulty(
               _compute_solution_hash(sol.challenge_id, sol.nonce),
               sol.difficulty)}

\* What verify_solution answers now to the solution, the store answering
AnswerNow(sol) ==
    verify_checks(sol, clock, _is_challenge_used(sol.challenge_id, FALSE))

\* The next press request brings the challenge of the failed one as far as
\* verify_solution, whose used-set lookup is answered
Resubmitted ==
    /\ press_count' = press_count + 1
    /\ AcceptedThen503
    /\ last_press'.challenge_id = last_press.challenge_id
    /\ last_press'.fault # "used"

\* C37 as stated: the solution of a press that was accepted by the PoW
\* check and then failed with 503 is answered 400 "Challenge already used"
\* whenever it is submitted again with the used-set store available.
C37_ResubmitAlreadyUsed ==
    AcceptedThen503
      => \A sol \in AcceptableSolutions(last_press.challenge_id) :
            AnswerNow(sol) = "Challenge already used"

\* C37: the challenge is marked as used before send_message is called, so
\* a press that passed the PoW check and wrote the marker holds the marker
\* whether or not its message was produced; its solution, submitted again
\* after a 503, is answered "Challenge already used" while the challenge has
\* not expired and "Challenge expired" from then on, and the press that
\* submits the challenge again is answered 400.
C37_ConsumedBeforeAppend ==
    /\ []((last_press.status \in {0, 202, 503}
             /\ "pow" \in last_press.passed /\ last_press.fault # "mark")
            => \A sol \in AcceptableSolutions(last_press.challenge_id) :
                 used[sol.challenge_id] >= sol.expires_at + USED_TTL_BUFFER)
    /\ [](AcceptedThen503
            => \A sol \in AcceptableSolutions(last_press.challenge_id) :
                 AnswerNow(sol) = IF clock <= sol.expires_at
                                  THEN "Challenge already used"
                                  ELSE "Challenge expired")
    /\ [][Resubmitted
            => /\ last_press'.status = 400
               /\ last_press'.used_rejected
                    => \A sol \in AcceptableSolutions(last_press.challenge_id) :
                         clock <= sol.expires_at]_vars

\* The first press was accepted and answered 503, nothing reached the log;
\* the second press, with the same challenge, is answered "Challenge already
\* used"
C37_Witness ==
    /\ last_press.request_id = 2
    /\ last_press.status = 400
    /\ last_press.used_rejected
    /\ last_press.fault = "none"
    /\ last_press.challenge_id = 1
    /\ store_errors = 0
    /\ log = <<>>
    /\ pqueue = {}

(***************************************************************************)
(* C38                                                                     *)
(***************************************************************************)

\* C38: a press request answered 429 adds no timestamp to the window of
\* any tier, neither to the tier that turned it away nor to a tier it had
\* passed before.
C38_RejectedAddsNothing ==
    [][(press_count' = press_count + 1 /\ last_press'.status = 429)
         => \A key \in Tiers : zset'[key] \subseteq zset[key]]_vars

(***************************************************************************)
(* C39                                                                     *)
(***************************************************************************)

\* C39: while the store answers, the count of the tier's window equals the
\* number of admitted requests whose timestamps are still inside the
\* window, two requests checked with the same timestamp value included.
C39_CountIsAdmitted ==
    ~rl_outage =>
        Cardinality(AfterEviction(PRESS_BURST_LIMIT, rl_clock))
            = Cardinality(AdmittedInWindow(rl_clock))

(***************************************************************************)
(* C40                                                                     *)
(***************************************************************************)

\* C40: the reducer publishes the notification of a row only when the row
\* is committed in storage, and rows are never removed, so for every
\* notification published, and hence for every one a listener has read,
\* get_state_by_id finds the row of that id and does not raise "No global
\* state found".
C40_PublishedAfterCommit ==
    /\ [][\A i \in published' \ published :
            \E n \in 1..Len(rows) : rows[n].id = i]_vars
    /\ [][\A n \in 1..Len(rows) : n <= Len(rows') /\ rows'[n] = rows[n]]_vars
    /\ [](consumed \subseteq published)
    /\ [](\A i \in published :
            get_state_by_id(i) # <<>> /\ get_state_by_id(i).id = i)

\* The listener has read the notification of row 1 while the reducer has
\* gone on to commit and publish row 2
C40_Witness ==
    /\ consumed = {1}
    /\ published = {1, 2}
    /\ Len(rows) = 2
    /\ get_state_by_id(2).counter = rows[2].counter

====
